---- MODULE Spec2Model ----
(***************************************************************************)
(* Speaker Identity Resolution Engine of ListenCarePlease                  *)
(* (backend/app/agents): the LangGraph pipeline                            *)
(*   load_profiles -> embedding_match -> name_extraction                   *)
(*                 -> name_based_tagging -> merge_results                  *)
(* modelled as a state machine over the keys of AgentState.                *)
(*                                                                         *)
(* Numbers.  Confidences are floats in [0,1] in the code; here they are    *)
(* integers on a scale of ConfScale = 600 (1.0 = 600, 0.7 = 420,           *)
(* 0.5 = 300).  Every confidence the reasoner returns is a multiple of 60, *)
(* so that the averages the merger takes over 1..6 judgments are exact.    *)
(* A cosine similarity dot/(|a||b|) is kept exactly as the pair            *)
(* [d |-> dot, q |-> |a|^2 * |b|^2] and compared by cross-multiplying.     *)
(***************************************************************************)
EXTENDS Integers, Sequences, FiniteSets, TLC

(***************************************************************************)
(* Bounds of the model                                                     *)
(***************************************************************************)
MaxMentions == 3
MaxProfiles == 2
MaxJudgments == 5
MaxRequests == 3
MaxHistory == 17
MaxConfirmRequests == 3

(***************************************************************************)
(* Vocabulary                                                              *)
(***************************************************************************)
DiarLabels == {"SPEAKER_00", "SPEAKER_01"}
NoMatch == "None"
KnownNames == <<"Kim", "Lee", "Park">>
Outsider == "Choi"

\* sorted() on speaker labels: the rank of a label in lexicographic order
LabelRank(l) ==
    CASE l = "SPEAKER_00" -> 0
      [] l = "SPEAKER_01" -> 1
      [] l = "SPEAKER_02" -> 2
      [] l = "UNKNOWN" -> 3
      [] OTHER -> 4

Range(s) == {s[i] : i \in DOMAIN s}

\* every ordering (sequence without repetition) of a finite set
Orderings(S) ==
    {o \in [1..Cardinality(S) -> S] : \A i, j \in 1..Cardinality(S) : i # j => o[i] # o[j]}

\* the elements of seq s that are in set S, in the order of s
RECURSIVE Restrict(_, _)
Restrict(s, S) ==
    IF s = <<>> THEN <<>>
    ELSE (IF Head(s) \in S THEN <<Head(s)>> ELSE <<>>) \o Restrict(Tail(s), S)

(***************************************************************************)
(* Embedding vectors and cosine similarity                                 *)
(***************************************************************************)
E1 == <<1, 0, 0, 0, 0>>
E2 == <<0, 1, 0, 0, 0>>
W85 == <<17, 10, 3, 1, 1>>      \* cos(E1, W85) = 17/20, exactly the threshold
W80 == <<4, 3, 0, 0, 0>>        \* cos(E1, W80) = 4/5
Zero == <<0, 0, 0, 0, 0>>        \* a vector of norm 0
NoVector == <<>>

RECURSIVE Dot(_, _)
Dot(a, b) == IF a = <<>> \/ b = <<>> THEN 0 ELSE Head(a) * Head(b) + Dot(Tail(a), Tail(b))

NormSq(a) == Dot(a, a)

Sim0 == [d |-> 0, q |-> 1]

\* np.dot raises ValueError for vectors of different lengths
ShapeError(a, b) == Len(a) # Len(b)

\* a cosine that takes a vector of norm 0 to be similar to everything
Cosine_unguarded(a, b) ==
    IF NormSq(a) = 0 \/ NormSq(b) = 0 THEN [d |-> 1, q |-> 1]
    ELSE [d |-> Dot(a, b), q |-> NormSq(a) * NormSq(b)]

\* dot_product / (norm_new * norm_stored), 0.0 when either norm is 0
Cosine(a, b) ==
    IF NormSq(a) = 0 \/ NormSq(b) = 0 THEN Sim0
    ELSE [d |-> Dot(a, b), q |-> NormSq(a) * NormSq(b)]

\* s > t for similarities d/sqrt(q)
SimGT(s, t) ==
    IF s.d >= 0 /\ t.d >= 0 THEN s.d * s.d * t.q > t.d * t.d * s.q
    ELSE IF s.d >= 0 THEN TRUE
    ELSE IF t.d >= 0 THEN FALSE
    ELSE s.d * s.d * t.q < t.d * t.d * s.q

SimGE(s, t) == ~SimGT(t, s)

\* threshold = 0.85 = 17/sqrt(400)
Threshold == [d |-> 17, q |-> 400]

(***************************************************************************)
(* Tools: calculate_voice_similarity and calculate_text_similarity         *)
(***************************************************************************)
\* the loop over stored_profiles: best is [match, sim]
RECURSIVE BestProfile(_, _, _, _)
BestProfile(emb, profiles, field, best) ==
    IF profiles = <<>> THEN best
    ELSE LET profile == Head(profiles)
             stored_emb == profile[field]
             similarity == Cosine(emb, stored_emb)
             next == IF stored_emb = NoVector THEN best
                     ELSE IF SimGT(similarity, best.sim)
                          THEN [match |-> profile.name, sim |-> similarity]
                          ELSE best
         IN  BestProfile(emb, Tail(profiles), field, next)

calculate_voice_similarity(new_embedding, stored_profiles) ==
    IF stored_profiles = <<>>
    THEN [matched_profile |-> NoMatch, similarity |-> Sim0, threshold_passed |-> FALSE]
    ELSE LET best == BestProfile(new_embedding, stored_profiles, "voice_embedding",
                                 [match |-> NoMatch, sim |-> Sim0])
         IN  [matched_profile |-> IF SimGE(best.sim, Threshold) THEN best.match ELSE NoMatch,
              similarity |-> best.sim,
              threshold_passed |-> SimGE(best.sim, Threshold)]

\* response: what client.embeddings.create returned for the combined text,
\* [ok |-> FALSE] when the call raised
calculate_text_similarity(current_utterances, stored_profiles, response) ==
    IF stored_profiles = <<>>
    THEN [matched_profile |-> NoMatch, similarity |-> Sim0]
    ELSE IF ~response.ok
    THEN [matched_profile |-> NoMatch, similarity |-> Sim0]
    ELSE LET best == BestProfile(response.embedding, stored_profiles, "text_embedding",
                                 [match |-> NoMatch, sim |-> Sim0])
         IN  [matched_profile |-> IF SimGE(best.sim, Threshold) THEN best.match ELSE NoMatch,
              similarity |-> best.sim]

(***************************************************************************)
(* State: the keys of AgentState, the environment the nodes call out to,   *)
(* and the position of the run in the graph                                *)
(***************************************************************************)
VARIABLES
    pc,                  \* the node about to run, "done" after merge_results
    user_id,
    stt_result,          \* sequence of [speaker, text]
    diar_result,         \* [embeddings : label -> vector]
    participant_names,   \* sequence of names
    previous_profiles,   \* sequence of [name, voice_embedding, text_embedding]
    auto_matched,        \* label -> name
    name_mentions,       \* sequence of [name, time]
    speaker_utterances,  \* label -> sequence of texts
    mapping_history,     \* sequence of judgments
    name_based_results,  \* ordered dict: sequence of [name, results]
    final_mappings,      \* label -> entry
    needs_manual_review, \* sequence of labels
    turn_num,            \* loop counter of name_based_tagging_node
    name_results,        \* its local ordered dict
    db,                  \* speaker_profiles table: [up, rows]
    embeddings_api,      \* text-embedding service: [up, vec : label -> vector]
    llm_calls,           \* the replies of the reasoning capability, one per call
    file_status,         \* AudioFile.status of the meeting
    pipeline_pc,         \* position of process_audio_pipeline for the meeting
    agent_runs,          \* the calls of run_tagging_agent for the meeting, in order
    responses,           \* what the endpoints answered, in order
    speaker_mappings,    \* speaker_mappings table: <<audio_file_id, speaker_label>> -> row
    confirmations        \* the names the user has confirmed, in order: [user_id, name, by]

vars == <<pc, user_id, stt_result, diar_result, participant_names, previous_profiles,
          auto_matched, name_mentions, speaker_utterances, mapping_history,
          name_based_results, final_mappings, needs_manual_review, turn_num,
          name_results, db, embeddings_api, llm_calls,
          file_status, pipeline_pc, agent_runs, responses,
          speaker_mappings, confirmations>>

inputs == <<user_id, stt_result, diar_result, participant_names, name_mentions,
            db, embeddings_api>>

\* the state of the API layer around the graph
service == <<file_status, pipeline_pc, agent_runs, responses>>

\* the tables the endpoints write besides speaker_profiles
tables == <<speaker_mappings, confirmations>>

\* everything the graph reads and writes
graph_state == <<pc, inputs, previous_profiles, auto_matched, speaker_utterances,
                 mapping_history, name_based_results, final_mappings, needs_manual_review,
                 turn_num, name_results, llm_calls>>

EmptyDict == <<>>

\* a graph with an edge from load_profiles to name_extraction
NextNode_skip(node) ==
    CASE node = "load_profiles" -> "name_extraction"
      [] node = "embedding_match" -> "name_extraction"
      [] node = "name_extraction" -> "name_based_tagging"
      [] node = "name_based_tagging" -> "merge_results"
      [] node = "merge_results" -> "done"

\* graph.add_edge: the node that runs after a node
NextNode(node) ==
    CASE node = "load_profiles" -> "embedding_match"
      [] node = "embedding_match" -> "name_extraction"
      [] node = "name_extraction" -> "name_based_tagging"
      [] node = "name_based_tagging" -> "merge_results"
      [] node = "merge_results" -> "done"

(***************************************************************************)
(* load_profiles_node                                                      *)
(***************************************************************************)
RECURSIVE ToolProfiles(_)
ToolProfiles(rows) ==
    IF rows = <<>> THEN <<>>
    ELSE <<[name |-> Head(rows).speaker_name,
            voice_embedding |-> Head(rows).voice_embedding,
            text_embedding |-> Head(rows).text_embedding]>> \o ToolProfiles(Tail(rows))

\* a node without the except clause: the error of the query leaves the node
load_profiles_unhandled == [previous_profiles |-> <<>>, raised |-> TRUE]

\* the except clause: an empty profile list, and the node returns normally
load_profiles_except == [previous_profiles |-> <<>>, raised |-> FALSE]

load_profiles_node ==
    /\ pc = "load_profiles"
    /\ LET r == IF user_id = 0 THEN [previous_profiles |-> <<>>, raised |-> FALSE]
                ELSE IF db.up THEN [previous_profiles |-> ToolProfiles(db.rows), raised |-> FALSE]
                ELSE load_profiles_except
       IN  /\ previous_profiles' = r.previous_profiles
           /\ pc' = IF r.raised THEN "raised" ELSE NextNode("load_profiles")
    /\ UNCHANGED <<inputs, service, tables, auto_matched, speaker_utterances, mapping_history,
                   name_based_results, final_mappings, needs_manual_review, turn_num,
                   name_results, llm_calls>>

(***************************************************************************)
(* embedding_match_node                                                    *)
(***************************************************************************)
RECURSIVE extract_speaker_texts(_, _)
extract_speaker_texts(speaker_label, stt) ==
    IF stt = <<>> THEN <<>>
    ELSE (IF Head(stt).speaker = speaker_label THEN <<Head(stt).text>> ELSE <<>>)
         \o extract_speaker_texts(speaker_label, Tail(stt))

\* client.embeddings.create for the combined text of one speaker
EmbeddingsCreate(speaker_label) ==
    IF embeddings_api.up THEN [ok |-> TRUE, embedding |-> embeddings_api.vec[speaker_label]]
    ELSE [ok |-> FALSE]

\* the name the loop body stores in auto_matched for a label, NoMatch for none
AutoMatchOf(speaker_label, profiles) ==
    LET utterances == extract_speaker_texts(speaker_label, stt_result)
        voice_result == calculate_voice_similarity(diar_result.embeddings[speaker_label],
                                                   profiles)
        text_result == calculate_text_similarity(utterances, profiles,
                                                 EmbeddingsCreate(speaker_label))
    IN  IF utterances = <<>> THEN NoMatch
        ELSE IF /\ voice_result.threshold_passed
                /\ SimGT(text_result.similarity, Threshold)
                /\ voice_result.matched_profile = text_result.matched_profile
                /\ voice_result.matched_profile # NoMatch
             THEN voice_result.matched_profile
             ELSE NoMatch

\* the dict the node builds: empty without profiles, else what the loop stores
AutoMatched(profiles) ==
    IF profiles = <<>> THEN EmptyDict
    ELSE [l \in {x \in DOMAIN diar_result.embeddings : AutoMatchOf(x, profiles) # NoMatch}
             |-> AutoMatchOf(l, profiles)]

\* a tool call of the loop raises: np.dot on a stored vector that was not skipped
ToolRaises(speaker_label, profiles) ==
    /\ extract_speaker_texts(speaker_label, stt_result) # <<>>
    /\ \E i \in DOMAIN profiles :
          \/ /\ profiles[i].voice_embedding # NoVector
             /\ ShapeError(diar_result.embeddings[speaker_label], profiles[i].voice_embedding)
          \/ /\ embeddings_api.up
             /\ profiles[i].text_embedding # NoVector
             /\ ShapeError(embeddings_api.vec[speaker_label], profiles[i].text_embedding)

embedding_match_node ==
    /\ pc = "embedding_match"
    /\ LET raised == \E l \in DOMAIN diar_result.embeddings : ToolRaises(l, previous_profiles)
       IN  /\ auto_matched' = IF previous_profiles # <<>> /\ raised THEN auto_matched
                              ELSE AutoMatched(previous_profiles)
           /\ pc' = IF previous_profiles # <<>> /\ raised THEN "raised"
                    ELSE NextNode("embedding_match")
    /\ UNCHANGED <<inputs, service, tables, previous_profiles, speaker_utterances, mapping_history,
                   name_based_results, final_mappings, needs_manual_review, turn_num,
                   name_results, llm_calls>>

(***************************************************************************)
(* name_extraction_node                                                    *)
(***************************************************************************)
RECURSIVE TextsOf(_, _)
TextsOf(speaker, stt) ==
    IF stt = <<>> THEN <<>>
    ELSE (IF Head(stt).speaker = speaker /\ Head(stt).text # "" THEN <<Head(stt).text>>
          ELSE <<>>) \o TextsOf(speaker, Tail(stt))

group_by_speaker(stt) ==
    [speaker \in {stt[i].speaker : i \in {j \in DOMAIN stt : stt[j].text # ""}}
        |-> TextsOf(speaker, stt)]

name_extraction_node ==
    /\ pc = "name_extraction"
    /\ speaker_utterances' = group_by_speaker(stt_result)
    /\ pc' = NextNode("name_extraction")
    /\ UNCHANGED <<inputs, service, tables, previous_profiles, auto_matched, mapping_history,
                   name_based_results, final_mappings, needs_manual_review, turn_num,
                   name_results, llm_calls>>

(***************************************************************************)
(* name_based_tagging_node                                                 *)
(***************************************************************************)
ConfScale == 600

\* get_history_summary: the lines of the summary text, in the order they are printed
RecentCount == 15

\* a window without the bound
Recent_unbounded(history) == history

\* line 69
Recent(history) ==
    IF Len(history) > RecentCount
    THEN SubSeq(history, Len(history) - RecentCount + 1, Len(history))
    ELSE history

\* line 80
Shown(h) == h.name_mentioned # "" /\ h.name # "Unknown" /\ h.speaker # "Unknown"

\* sorted() on the names that are mentioned: the rank of a name in lexicographic order
NameRank(n) ==
    CASE n = "Choi" -> 0
      [] n = "Kim" -> 1
      [] n = "Lee" -> 2
      [] n = "Park" -> 3
      [] OTHER -> 4

\* the format {confidence:.2f}: hundredths, rounded
Hundredths(confidence) == (confidence * 200 + ConfScale) \div (2 * ConfScale)

\* line 114
SummaryLine(h) ==
    [name_mentioned |-> h.name_mentioned, speaker |-> h.speaker, name |-> h.name,
     confidence |-> Hundredths(h.confidence), turn |-> h.turn]

\* lines 95, 110, 112: names in sorted order, then speakers in sorted order, then
\* confidence descending; each sort is stable
LineBefore(a, b) ==
    \/ NameRank(a.name_mentioned) < NameRank(b.name_mentioned)
    \/ /\ a.name_mentioned = b.name_mentioned
       /\ \/ LabelRank(a.speaker) < LabelRank(b.speaker)
          \/ a.speaker = b.speaker /\ a.confidence > b.confidence

RECURSIVE InsertLine(_, _)
InsertLine(sorted, h) ==
    IF sorted = <<>> THEN <<h>>
    ELSE IF LineBefore(h, Head(sorted)) THEN <<h>> \o sorted
         ELSE <<Head(sorted)>> \o InsertLine(Tail(sorted), h)

RECURSIVE SortLines(_, _)
SortLines(hs, acc) ==
    IF hs = <<>> THEN acc ELSE SortLines(Tail(hs), InsertLine(acc, Head(hs)))

get_history_summary(history) ==
    LET sorted == SortLines(SelectSeq(Recent(history), Shown), <<>>)
    IN  [i \in 1..Len(sorted) |-> SummaryLine(sorted[i])]

\* what llm.invoke can do for one call: raise, time out (which raises as well),
\* or return a content that the parser accepts or rejects
LLMReplies ==
    {[kind |-> "content", speaker |-> s, name |-> nc[1], confidence |-> nc[2]] :
        s \in DiarLabels, nc \in {<<"Kim", 480>>, <<"Lee", 360>>}}
    \cup {[kind |-> "content", speaker |-> "SPEAKER_01", name |-> "Kim", confidence |-> 360],
          [kind |-> "content", speaker |-> "SPEAKER_00", name |-> Outsider, confidence |-> 480],
          [kind |-> "content", speaker |-> "SPEAKER_00", name |-> "Kim", confidence |-> 720],
          [kind |-> "raise", speaker |-> "", name |-> "", confidence |-> 0],
          [kind |-> "timeout", speaker |-> "", name |-> "", confidence |-> 0]}

\* llm.invoke returned normally
Returned(reply) == reply.kind = "content"

\* output_parser.parse: SpeakerMappingResult validates confidence with ge=0.0, le=1.0
\* and nothing else about speaker or name
ParseOK(reply) == reply.confidence >= 0 /\ reply.confidence <= ConfScale

LLMFailed(reply) == ~Returned(reply) \/ ~ParseOK(reply)

\* the result dict of the try branch
TryResult(reply, turn, mention) ==
    [speaker |-> reply.speaker, name |-> reply.name, confidence |-> reply.confidence,
     turn |-> turn, time |-> mention.time, name_mentioned |-> mention.name,
     error |-> FALSE]

\* the result dict of the except branch
ExceptResult(turn, mention) ==
    [speaker |-> "Unknown", name |-> "Unknown", confidence |-> 0,
     turn |-> turn, time |-> mention.time, name_mentioned |-> mention.name,
     error |-> TRUE]

\* name_results[name].append(result), creating the list on first use
RECURSIVE DictAppend(_, _, _)
DictAppend(dict, name, result) ==
    IF dict = <<>> THEN <<[name |-> name, results |-> <<result>>]>>
    ELSE IF Head(dict).name = name
         THEN <<[name |-> name, results |-> Append(Head(dict).results, result)]>> \o Tail(dict)
         ELSE <<Head(dict)>> \o DictAppend(Tail(dict), name, result)

\* a loop body that leaves the loop after a failed call
LoopBody_break(reply, turn, mention, history, results) ==
    IF ~LLMFailed(reply)
    THEN [history |-> Append(history, TryResult(reply, turn, mention)),
          results |-> DictAppend(results, mention.name, TryResult(reply, turn, mention)),
          continue |-> TRUE, raised |-> FALSE]
    ELSE [history |-> Append(history, ExceptResult(turn, mention)),
          results |-> results,
          continue |-> FALSE, raised |-> FALSE]

\* a loop body whose except branch returns the default without recording it
LoopBody_drop(reply, turn, mention, history, results) ==
    IF ~LLMFailed(reply)
    THEN [history |-> Append(history, TryResult(reply, turn, mention)),
          results |-> DictAppend(results, mention.name, TryResult(reply, turn, mention)),
          continue |-> TRUE, raised |-> FALSE]
    ELSE [history |-> history,
          results |-> results,
          continue |-> TRUE, raised |-> FALSE]

\* one pass of the loop body: [history, results, continue, raised]
LoopBody(reply, turn, mention, history, results) ==
    IF ~LLMFailed(reply)
    THEN [history |-> Append(history, TryResult(reply, turn, mention)),
          results |-> DictAppend(results, mention.name, TryResult(reply, turn, mention)),
          continue |-> TRUE, raised |-> FALSE]
    ELSE [history |-> Append(history, ExceptResult(turn, mention)),
          results |-> results,
          continue |-> TRUE, raised |-> FALSE]

\* entry of the node up to the loop: the early return for no mentions
name_based_tagging_node ==
    /\ pc = "name_based_tagging"
    /\ IF name_mentions = <<>>
       THEN /\ name_based_results' = EmptyDict
            /\ pc' = NextNode("name_based_tagging")
            /\ UNCHANGED <<turn_num, name_results>>
       ELSE /\ name_results' = EmptyDict
            /\ turn_num' = 1
            /\ pc' = "tagging_loop"
            /\ UNCHANGED name_based_results
    /\ UNCHANGED <<inputs, service, tables, previous_profiles, auto_matched, speaker_utterances,
                   mapping_history, final_mappings, needs_manual_review, llm_calls>>

\* one iteration of the loop over name_mentions; the last one also stores
\* name_based_results and mapping_history and returns
name_based_tagging_turn ==
    /\ pc = "tagging_loop"
    /\ turn_num <= Len(name_mentions)
    /\ \E reply \in LLMReplies :
          LET r == LoopBody(reply, turn_num, name_mentions[turn_num],
                            mapping_history, name_results)
              last == turn_num = Len(name_mentions) \/ ~r.continue
          IN  /\ llm_calls' = Append(llm_calls, reply)
              /\ mapping_history' = r.history
              /\ name_results' = r.results
              /\ turn_num' = turn_num + 1
              /\ name_based_results' = IF last /\ ~r.raised THEN r.results
                                       ELSE name_based_results
              /\ pc' = IF r.raised THEN "raised"
                       ELSE IF last THEN NextNode("name_based_tagging") ELSE "tagging_loop"
    /\ UNCHANGED <<inputs, service, tables, previous_profiles, auto_matched, speaker_utterances,
                   final_mappings, needs_manual_review>>

(***************************************************************************)
(* merge_results_node and apply_elimination_method                         *)
(*                                                                         *)
(* The code iterates two Python sets of strings, all_speakers and          *)
(* unused_names, whose iteration order depends on the process's string     *)
(* hash seed.  The operators below take those orders as parameters         *)
(* (speaker_order, name_order) and the action chooses them freely.         *)
(* The match method the code spells "소거법" is "elimination" here.          *)
(***************************************************************************)
MinUtterances == 3
ReviewBelow == 420
EliminationConfidence == 300

Put(f, k, v) == [x \in DOMAIN f \cup {k} |-> IF x = k THEN v ELSE f[x]]

RECURSIVE Remove(_, _)
Remove(s, x) ==
    IF s = <<>> THEN <<>>
    ELSE IF Head(s) = x THEN Tail(s) ELSE <<Head(s)>> \o Remove(Tail(s), x)

\* len(speaker_utterances.get(speaker, []))
UtteranceCount(su, speaker) == IF speaker \in DOMAIN su THEN Len(su[speaker]) ELSE 0

\* an auto-match entry that reports a similarity of 0.9 as its confidence
AutoEntry_similarity(speaker_label, name) ==
    [speaker_label |-> speaker_label, name |-> name, match_method |-> "embedding",
     auto_matched |-> TRUE, confidence |-> (9 * ConfScale) \div 10, needs_review |-> FALSE]

\* lines 98-106: the entry of an auto-matched speaker
AutoEntry(speaker_label, name) ==
    [speaker_label |-> speaker_label, name |-> name, match_method |-> "embedding",
     auto_matched |-> TRUE, confidence |-> ConfScale, needs_review |-> FALSE]

SeedAutoMatched(am) == [l \in DOMAIN am |-> AutoEntry(l, am[l])]

\* lines 114-122: the judgments that count for one speaker, in dict order
RECURSIVE Flatten(_)
Flatten(dict) == IF dict = <<>> THEN <<>> ELSE Head(dict).results \o Flatten(Tail(dict))

speaker_name_scores(nbr, speaker) ==
    LET Counted(r) == r.speaker # "" /\ r.speaker # "Unknown" /\ r.speaker = speaker
    IN  SelectSeq(Flatten(nbr), Counted)

\* name_counts[name]["count"] += 1; name_counts[name]["total_confidence"] += conf
RECURSIVE CountInto(_, _, _)
CountInto(counts, name, conf) ==
    IF counts = <<>> THEN <<[name |-> name, count |-> 1, total_confidence |-> conf]>>
    ELSE IF Head(counts).name = name
         THEN <<[name |-> name, count |-> Head(counts).count + 1,
                 total_confidence |-> Head(counts).total_confidence + conf]>> \o Tail(counts)
         ELSE <<Head(counts)>> \o CountInto(Tail(counts), name, conf)

RECURSIVE NameCounts(_, _)
NameCounts(judgments, acc) ==
    IF judgments = <<>> THEN acc
    ELSE NameCounts(Tail(judgments),
                    CountInto(acc, Head(judgments).name, Head(judgments).confidence))

Avg(c) == c.total_confidence \div c.count

\* a key that puts the average confidence before the count
CountKeyGT_confidence(a, b) == Avg(a) > Avg(b) \/ (Avg(a) = Avg(b) /\ a.count > b.count)

\* key (count, total_confidence / count) of a is greater than that of b
CountKeyGT(a, b) == a.count > b.count \/ (a.count = b.count /\ Avg(a) > Avg(b))

\* max(): the first of the greatest
RECURSIVE MaxCount(_, _)
MaxCount(counts, best) ==
    IF counts = <<>> THEN best
    ELSE MaxCount(Tail(counts), IF CountKeyGT(Head(counts), best) THEN Head(counts) ELSE best)

BestCount(counts) == MaxCount(Tail(counts), Head(counts))

\* lines 124-147
RECURSIVE InitialMapping(_, _, _)
InitialMapping(speaker_order, am, nbr) ==
    IF speaker_order = <<>> THEN <<>>
    ELSE LET speaker_label == Head(speaker_order)
             scores == speaker_name_scores(nbr, speaker_label)
             best == BestCount(NameCounts(scores, <<>>))
         IN  (IF speaker_label \in DOMAIN am \/ scores = <<>> THEN <<>>
              ELSE <<[speaker |-> speaker_label, name |-> best.name,
                      confidence |-> Avg(best), method |-> "",
                      evidence_count |-> Len(scores)]>>)
             \o InitialMapping(Tail(speaker_order), am, nbr)

\* keys of name_to_speakers in insertion order
RECURSIVE ClaimedNames(_, _)
ClaimedNames(mapping, seen) ==
    IF mapping = <<>> THEN <<>>
    ELSE IF Head(mapping).name = "" \/ Head(mapping).name \in seen
         THEN ClaimedNames(Tail(mapping), seen)
         ELSE <<Head(mapping).name>> \o ClaimedNames(Tail(mapping), seen \cup {Head(mapping).name})

\* key (confidence, evidence_count) of a is greater than that of b
InfoKeyGT(a, b) ==
    a.confidence > b.confidence
    \/ (a.confidence = b.confidence /\ a.evidence_count > b.evidence_count)

RECURSIVE MaxInfo(_, _)
MaxInfo(infos, best) ==
    IF infos = <<>> THEN best
    ELSE MaxInfo(Tail(infos), IF InfoKeyGT(Head(infos), best) THEN Head(infos) ELSE best)

\* lines 36-56: one speaker per claimed name
RemoveDuplicates(mapping) ==
    LET names == ClaimedNames(mapping, {})
        Claimants(name) == LET Claims(i) == i.name = name IN SelectSeq(mapping, Claims)
    IN  [k \in 1..Len(names) |->
            MaxInfo(Tail(Claimants(names[k])), Head(Claimants(names[k])))]

\* sorted(unmapped_speakers)
RECURSIVE SortedLabels(_)
SortedLabels(S) ==
    IF S = {} THEN <<>>
    ELSE LET first == CHOOSE l \in S : \A o \in S : LabelRank(l) <= LabelRank(o)
         IN  <<first>> \o SortedLabels(S \ {first})

\* an elimination loop that does not take the assigned name out of unused_names
RECURSIVE EliminationLoop_reuse(_, _, _, _)
EliminationLoop_reuse(speakers, unused, su, refined) ==
    IF speakers = <<>> THEN refined
    ELSE IF UtteranceCount(su, Head(speakers)) >= MinUtterances /\ unused # <<>>
         THEN EliminationLoop_reuse(Tail(speakers), unused, su,
                  Append(refined, [speaker |-> Head(speakers), name |-> Head(unused),
                                   confidence |-> EliminationConfidence,
                                   method |-> "elimination", evidence_count |-> 0]))
         ELSE EliminationLoop_reuse(Tail(speakers), unused, su, refined)

\* lines 67-81; unused is the set unused_names in its iteration order
RECURSIVE EliminationLoop(_, _, _, _)
EliminationLoop(speakers, unused, su, refined) ==
    IF speakers = <<>> THEN refined
    ELSE IF UtteranceCount(su, Head(speakers)) >= MinUtterances /\ unused # <<>>
         THEN EliminationLoop(Tail(speakers), Tail(unused), su,
                  Append(refined, [speaker |-> Head(speakers), name |-> Head(unused),
                                   confidence |-> EliminationConfidence,
                                   method |-> "elimination", evidence_count |-> 0]))
         ELSE EliminationLoop(Tail(speakers), unused, su, refined)

apply_elimination_method(mapping, all_speakers, names, su, name_order) ==
    LET refined == RemoveDuplicates(mapping)
        mapped_speakers == {refined[k].speaker : k \in DOMAIN refined}
        unmapped_speakers == all_speakers \ mapped_speakers
        used_names == {refined[k].name : k \in DOMAIN refined}
        unused_names == Range(names) \ used_names
    IN  IF Cardinality(unmapped_speakers) = Cardinality(unused_names)
           /\ Cardinality(unmapped_speakers) > 0
        THEN EliminationLoop(SortedLabels(unmapped_speakers),
                             Restrict(name_order, unused_names), su, refined)
        ELSE refined

\* a review rule that also flags a confidence of exactly 0.7
RefinedNeedsReview_inclusive(confidence, method) ==
    confidence <= ReviewBelow \/ method = "elimination"

\* line 167
RefinedNeedsReview(confidence, method) == confidence < ReviewBelow \/ method = "elimination"

\* lines 158-168: the entry written for a speaker of refined_mapping
RefinedEntry(info) ==
    LET method == IF info.method = "" THEN "name_based" ELSE info.method
    IN  [speaker_label |-> info.speaker, name |-> info.name, match_method |-> method,
         auto_matched |-> FALSE, confidence |-> info.confidence,
         needs_review |-> RefinedNeedsReview(info.confidence, method)]

\* lines 157-171; m is [final, review]
RECURSIVE WriteRefined(_, _)
WriteRefined(refined, m) ==
    IF refined = <<>> THEN m
    ELSE LET entry == RefinedEntry(Head(refined))
         IN  WriteRefined(Tail(refined),
                 [final |-> Put(m.final, entry.speaker_label, entry),
                  review |-> IF entry.needs_review THEN Append(m.review, entry.speaker_label)
                             ELSE m.review])

\* lines 179-202: one candidate per unmapped speaker that has a judgment for an unused
\* name; key is its score, 0.5 * count + 0.5 * avg_confidence, times 2 * ConfScale
RECURSIVE UnmappedScores(_, _, _)
UnmappedScores(unmapped, nbr, unused) ==
    IF unmapped = <<>> THEN <<>>
    ELSE LET speaker_label == Head(unmapped)
             scores == speaker_name_scores(nbr, speaker_label)
             Usable(r) == r.name \in Range(unused)
             name_scores == NameCounts(SelectSeq(scores, Usable), <<>>)
             best == BestCount(name_scores)
         IN  (IF scores = <<>> \/ name_scores = <<>> THEN <<>>
              ELSE <<[speaker |-> speaker_label, name |-> best.name,
                      confidence |-> Avg(best),
                      key |-> best.count * ConfScale + Avg(best),
                      evidence_count |-> best.count]>>)
             \o UnmappedScores(Tail(unmapped), nbr, unused)

\* list.sort(key=..., reverse=True): descending and stable; the sort key of an
\* item is its field key
\* the same sort without reverse=True
RECURSIVE InsertDesc_ascending(_, _)
InsertDesc_ascending(sorted, item) ==
    IF sorted = <<>> THEN <<item>>
    ELSE IF Head(sorted).key <= item.key
         THEN <<Head(sorted)>> \o InsertDesc_ascending(Tail(sorted), item)
         ELSE <<item>> \o sorted

RECURSIVE InsertDesc(_, _)
InsertDesc(sorted, item) ==
    IF sorted = <<>> THEN <<item>>
    ELSE IF Head(sorted).key >= item.key
         THEN <<Head(sorted)>> \o InsertDesc(Tail(sorted), item)
         ELSE <<item>> \o sorted

RECURSIVE SortDesc(_, _)
SortDesc(items, acc) ==
    IF items = <<>> THEN acc
    ELSE SortDesc(Tail(items), InsertDesc(acc, Head(items)))

\* line 213
ScoreNeedsReview(confidence) == confidence < ReviewBelow

ScoreEntry(item) ==
    [speaker_label |-> item.speaker, name |-> item.name, match_method |-> "score_based",
     auto_matched |-> FALSE, confidence |-> item.confidence,
     needs_review |-> ScoreNeedsReview(item.confidence)]

\* lines 204-218; m is [final, review, unused]
RECURSIVE CommitScores(_, _, _)
CommitScores(items, m, used_in_round) ==
    IF items = <<>> THEN m
    ELSE LET item == Head(items)
             entry == ScoreEntry(item)
         IN  IF item.name \notin used_in_round /\ item.name \in Range(m.unused)
             THEN CommitScores(Tail(items),
                      [final |-> Put(m.final, item.speaker, entry),
                       review |-> IF entry.needs_review THEN Append(m.review, item.speaker)
                                  ELSE m.review,
                       unused |-> Remove(m.unused, item.name)],
                      used_in_round \cup {item.name})
             ELSE CommitScores(Tail(items), m, used_in_round)

ResidualEntry(speaker_label, name) ==
    [speaker_label |-> speaker_label, name |-> name, match_method |-> "elimination",
     auto_matched |-> FALSE, confidence |-> EliminationConfidence, needs_review |-> TRUE]

\* lines 227-240; speakers is remaining_with_utterances, sorted
RECURSIVE ResidualLoop(_, _)
ResidualLoop(speakers, m) ==
    IF speakers = <<>> THEN m
    ELSE IF m.unused # <<>>
         THEN ResidualLoop(Tail(speakers),
                  [final |-> Put(m.final, Head(speakers).speaker,
                                 ResidualEntry(Head(speakers).speaker, Head(m.unused))),
                   review |-> Append(m.review, Head(speakers).speaker),
                   unused |-> Tail(m.unused)])
         ELSE ResidualLoop(Tail(speakers), m)

UnknownEntry(speaker_label) ==
    [speaker_label |-> speaker_label, name |-> "Unknown", match_method |-> "none",
     auto_matched |-> FALSE, confidence |-> 0, needs_review |-> TRUE]

\* the fallback loop without needs_review.append
RECURSIVE UnknownLoop_silent(_, _)
UnknownLoop_silent(speaker_order, m) ==
    IF speaker_order = <<>> THEN m
    ELSE IF Head(speaker_order) \notin DOMAIN m.final
         THEN UnknownLoop_silent(Tail(speaker_order),
                  [final |-> Put(m.final, Head(speaker_order), UnknownEntry(Head(speaker_order))),
                   review |-> m.review])
         ELSE UnknownLoop_silent(Tail(speaker_order), m)

\* lines 241-251
RECURSIVE UnknownLoop(_, _)
UnknownLoop(speaker_order, m) ==
    IF speaker_order = <<>> THEN m
    ELSE IF Head(speaker_order) \notin DOMAIN m.final
         THEN UnknownLoop(Tail(speaker_order),
                  [final |-> Put(m.final, Head(speaker_order), UnknownEntry(Head(speaker_order))),
                   review |-> Append(m.review, Head(speaker_order))])
         ELSE UnknownLoop(Tail(speaker_order), m)

\* lines 173-218: second-chance scoring; [final, review, unused, ran], where ran
\* tells whether the guard of line 178 let the block run
ScoringPass(speaker_order, m, nbr, names) ==
    LET Unmapped(s) == s \notin DOMAIN m.final
        unmapped_speakers == SelectSeq(speaker_order, Unmapped)
        used_names == {m.final[l].name : l \in DOMAIN m.final} \ {"", "Unknown"}
        Unused(n) == n \notin used_names
        unused_names == SelectSeq(names, Unused)
        scored == CommitScores(SortDesc(UnmappedScores(unmapped_speakers, nbr, unused_names),
                                        <<>>),
                               [final |-> m.final, review |-> m.review,
                                unused |-> unused_names], {})
    IN  IF unmapped_speakers # <<>> /\ unused_names # <<>>
        THEN [final |-> scored.final, review |-> scored.review,
              unused |-> scored.unused, ran |-> TRUE]
        ELSE [final |-> m.final, review |-> m.review, unused |-> unused_names, ran |-> FALSE]

\* lines 219-240: residual elimination over the speakers the scoring pass left
\* unmapped; scored is the result of the scoring pass
ResidualPass(speaker_order, scored, su) ==
    LET StillUnmapped(s) == s \notin DOMAIN scored.final
        Talkative(s) == UtteranceCount(su, s) >= MinUtterances
        remaining_unmapped == SelectSeq(speaker_order, StillUnmapped)
        talkative == SelectSeq(remaining_unmapped, Talkative)
        remaining_with_utterances ==
            [k \in 1..Len(talkative) |->
                [speaker |-> talkative[k], key |-> UtteranceCount(su, talkative[k])]]
    IN  ResidualLoop(SortDesc(remaining_with_utterances, <<>>),
                     [final |-> scored.final, review |-> scored.review,
                      unused |-> scored.unused])

\* lines 173-240: second-chance scoring, then residual elimination
SecondChance(speaker_order, m, nbr, names, su) ==
    LET scored == ScoringPass(speaker_order, m, nbr, names)
        residual == ResidualPass(speaker_order, scored, su)
    IN  IF scored.ran
        THEN [final |-> residual.final, review |-> residual.review]
        ELSE m

\* the whole node, as a function of the state it reads and of the two set orders:
\* [final, review]
\* (each stage is bound as the element of a one-element set, so that it is
\* computed once: initial_mapping, refined_mapping, the mapping written from it,
\* the mapping after second-chance scoring and residual elimination)
Merge(am, nbr, su, names, speaker_order, name_order) ==
    CHOOSE result \in
        {UnknownLoop(speaker_order, assigned) :
            assigned \in {SecondChance(speaker_order, written, nbr, names, su) :
            written \in {WriteRefined(refined_mapping,
                                      [final |-> SeedAutoMatched(am), review |-> <<>>]) :
            refined_mapping \in {apply_elimination_method(initial_mapping, DOMAIN su,
                                                          names, su, name_order) :
            initial_mapping \in {InitialMapping(speaker_order, am, nbr)}}}}} : TRUE

\* the orders in which the two sets can be iterated in the current state
SpeakerOrders == Orderings(DOMAIN speaker_utterances)
NameOrders == Orderings(Range(participant_names))

MergeResult(speaker_order, name_order) ==
    Merge(auto_matched, name_based_results, speaker_utterances, participant_names,
          speaker_order, name_order)

merge_results_node ==
    /\ pc = "merge_results"
    /\ \E speaker_order \in SpeakerOrders, name_order \in NameOrders :
          LET r == MergeResult(speaker_order, name_order)
          IN  /\ final_mappings' = r.final
              /\ needs_manual_review' = r.review
    /\ pc' = NextNode("merge_results")
    /\ UNCHANGED <<inputs, service, tables, previous_profiles, auto_matched, speaker_utterances,
                   mapping_history, name_based_results, turn_num, name_results, llm_calls>>

(***************************************************************************)
(* Inputs of a run (run_tagging_agent's initial_state and the environment) *)
(***************************************************************************)
Repeat(x, n) == [i \in 1..n |-> x]

\* the transcript segments of one speaker: kind[1] with text, kind[2] with empty text
Segments(label, kind) ==
    Repeat([speaker |-> label, text |-> "t"], kind[1])
    \o Repeat([speaker |-> label, text |-> ""], kind[2])

RECURSIVE Transcript(_, _)
Transcript(labels, kinds) ==
    IF labels = <<>> THEN <<>>
    ELSE Segments(Head(labels), kinds[Head(labels)]) \o Transcript(Tail(labels), kinds)

\* the first n name-mention events, naming Kim and Lee in turn
Mentions(n) == [k \in 1..n |-> [name |-> KnownNames[((k - 1) % 2) + 1], time |-> k]]

Row(name, voice, text) ==
    [speaker_name |-> name, voice_embedding |-> voice, text_embedding |-> text]

\* the voice embedding of each diarized speaker, and the text embedding the
\* service returns for its utterances
VoiceOf == [l \in DiarLabels |-> IF l = "SPEAKER_00" THEN E1 ELSE E2]

SeqsUpTo(S, n) == UNION {[1..k -> S] : k \in 0..n}

Talks == {<<2, 0>>, <<3, 0>>, <<4, 0>>}
Silent == {<<0, 1>>}

NameLists == {<<>>, <<"Kim">>, <<"Kim", "Lee">>, <<"Kim", "Lee", "Park">>}

\* runs without stored profiles and with up to MaxMentions name mentions
JudgmentInputs ==
    [user_id : {1},
     kinds : {k \in [DiarLabels -> Talks \cup Silent] : k["SPEAKER_00"] = <<3, 0>>},
     names : NameLists \ {<<>>},
     mentions : 0..MaxMentions,
     rows : {<<>>},
     db_up : {TRUE},
     api_up : {TRUE},
     text_vec : {VoiceOf}]

\* the environments of those runs: [user_id, rows, db_up, api_up]
Environment(uid, rows, db_up, api_up) ==
    [user_id |-> uid, rows |-> rows, db_up |-> db_up, api_up |-> api_up]

Environments ==
    {Environment(1, <<>>, TRUE, TRUE),
     Environment(1, <<Row("Kim", E1, E1)>>, TRUE, TRUE),
     Environment(1, <<Row(Outsider, E1, E1)>>, TRUE, TRUE),
     Environment(1, <<Row("Kim", E1, E1), Row("Kim", E2, E2)>>, TRUE, TRUE),
     Environment(1, <<Row("Kim", E1, E1)>>, FALSE, TRUE),
     Environment(1, <<Row("Kim", E1, E1)>>, TRUE, FALSE),
     Environment(0, <<Row("Kim", E1, E1)>>, TRUE, TRUE)}

\* runs with stored profiles, a failing table or a failing embedding service,
\* and at most one name mention
ProfileInputs ==
    {[user_id |-> e.user_id, kinds |-> k, names |-> n, mentions |-> m, rows |-> e.rows,
      db_up |-> e.db_up, api_up |-> e.api_up, text_vec |-> VoiceOf] :
        e \in Environments, k \in [DiarLabels -> Talks \cup Silent], n \in NameLists,
        m \in {0, 1}}

\* runs that vary the stored profiles and the embeddings: one speaker is compared
\* with up to MaxProfiles profiles
ProfilePool ==
    {Row(n, v, t) : n \in {"Kim", "Lee"}, v \in {E1, W85, W80}, t \in {E1, W85, W80}}

MatcherInputs ==
    {in \in [user_id : {1},
             kinds : {k \in [DiarLabels -> {<<3, 0>>, <<0, 0>>}] : k["SPEAKER_00"] = <<3, 0>>},
             names : {<<"Kim", "Lee">>},
             mentions : {0, 1},
             rows : SeqsUpTo(ProfilePool, MaxProfiles),
             db_up : {TRUE},
             api_up : BOOLEAN,
             text_vec : {[l \in DiarLabels |-> E1]}] :
        in.mentions = 1 => in.rows = <<>> /\ in.api_up}

\* the meeting has been processed, and one call of run_tagging_agent is under way
OneRun ==
    /\ file_status = "completed"
    /\ pipeline_pc = "returned"
    /\ agent_runs = <<[by |-> "analyze", at |-> "invoke"]>>
    /\ responses = <<"started">>

\* initial_state for a transcript stt and the speaker embeddings of the diarization
InitRun(in, stt, embeddings) ==
    /\ OneRun
    /\ pc = "load_profiles"
    /\ user_id = in.user_id
    /\ stt_result = stt
    /\ diar_result = [embeddings |-> embeddings]
    /\ participant_names = in.names
    /\ name_mentions = Mentions(in.mentions)
    /\ db = [up |-> in.db_up, rows |-> in.rows]
    /\ embeddings_api = [up |-> in.api_up, vec |-> in.text_vec]
    /\ previous_profiles = <<>>
    /\ auto_matched = EmptyDict
    /\ speaker_utterances = EmptyDict
    /\ mapping_history = <<>>
    /\ name_based_results = EmptyDict
    /\ final_mappings = EmptyDict
    /\ needs_manual_review = <<>>
    /\ turn_num = 0
    /\ name_results = EmptyDict
    /\ llm_calls = <<>>

InitWith(in) == InitRun(in, Transcript(SortedLabels(DiarLabels), in.kinds), VoiceOf)

\* a meeting that has no speaker_mappings row yet, and a user who has confirmed nothing
NoTables ==
    /\ speaker_mappings = EmptyDict
    /\ confirmations = <<>>

Init == NoTables /\ \E in \in JudgmentInputs \cup ProfileInputs : InitWith(in)

\* runs with degenerate vectors: stored profiles without a vector or with one of
\* norm 0, a speaker whose diarization rows carry no embedding (the loader then
\* leaves the label out of embeddings) or one of norm 0, and a text embedding of
\* norm 0
DegeneratePool == {Row("Kim", v, t) : v \in {E1, Zero, NoVector}, t \in {E1, Zero, NoVector}}

SpeakerVectors ==
    {[l \in DiarLabels |-> IF l = "SPEAKER_00" THEN v ELSE E2] : v \in {E1, Zero}}
    \cup {[l \in {"SPEAKER_00"} |-> E1]}

DegenerateInputs ==
    [user_id : {1},
     kinds : {[l \in DiarLabels |-> <<3, 0>>]},
     names : {<<"Kim", "Lee">>},
     mentions : {0},
     rows : SeqsUpTo(DegeneratePool, MaxProfiles),
     db_up : {TRUE},
     api_up : {TRUE},
     text_vec : {[l \in DiarLabels |-> v] : v \in {E1, Zero}},
     embeddings : SpeakerVectors]

InitMatch ==
    /\ NoTables
    /\ \/ \E in \in MatcherInputs : InitWith(in)
       \/ \E in \in DegenerateInputs :
             InitRun(in, Transcript(SortedLabels(DiarLabels), in.kinds), in.embeddings)

FailureInputs ==
    {[user_id |-> e.user_id, kinds |-> [l \in DiarLabels |-> <<3, 0>>],
      names |-> <<"Kim", "Lee">>, mentions |-> m, rows |-> e.rows,
      db_up |-> e.db_up, api_up |-> e.api_up, text_vec |-> VoiceOf] :
        e \in Environments, m \in 0..(MaxMentions - 1)}

InitFair == NoTables /\ \E in \in FailureInputs : InitWith(in)

(***************************************************************************)
(* Runs that have reached merge_results_node: the state the first four     *)
(* nodes leave for a meeting of up to three speakers                       *)
(***************************************************************************)
WideLabels == DiarLabels \cup {"SPEAKER_02"}
E3 == <<0, 0, 1, 0, 0>>

VoiceOfWide ==
    [l \in WideLabels |-> IF l = "SPEAKER_00" THEN E1 ELSE IF l = "SPEAKER_01" THEN E2 ELSE E3]

\* the judgments the reasoning capability returns in these runs
MergeReplies ==
    {[kind |-> "content", speaker |-> s, name |-> nc[1], confidence |-> nc[2]] :
        s \in DiarLabels, nc \in {<<"Kim", 480>>, <<"Lee", 360>>}}
    \cup {[kind |-> "content", speaker |-> "SPEAKER_01", name |-> "Park", confidence |-> 360]}

\* the loop of name_based_tagging_node over all mentions: [history, results]
RECURSIVE RunReasoner(_, _, _, _)
RunReasoner(replies, k, history, results) ==
    IF k > Len(replies) THEN [history |-> history, results |-> results]
    ELSE LET r == LoopBody(replies[k], k, Mentions(Len(replies))[k], history, results)
         IN  RunReasoner(replies, k + 1, r.history, r.results)

\* meetings without name mentions: up to three speakers, who talk little or much
\* or not at all, with or without a stored profile that matches SPEAKER_00
EliminationInputs ==
    [kinds : [WideLabels -> {<<0, 0>>, <<2, 0>>, <<3, 0>>, <<4, 0>>}],
     names : NameLists,
     rows : {<<>>, <<Row("Kim", E1, E1)>>},
     replies : {<<>>}]

\* meetings of two talkative speakers with up to MaxJudgments name mentions
JudgmentRuns ==
    [kinds : {[l \in WideLabels |-> IF l \in DiarLabels THEN <<3, 0>> ELSE <<0, 0>>]},
     names : {<<"Kim", "Lee">>, <<"Kim", "Lee", "Park">>},
     rows : {<<>>},
     replies : SeqsUpTo(MergeReplies, MaxJudgments)]

\* the judgments of a meeting in which three speakers are all taken for Kim, and
\* the reasoner once answers that it does not know the name
ScoreScript ==
    <<[kind |-> "content", speaker |-> "SPEAKER_00", name |-> "Kim", confidence |-> 480],
      [kind |-> "content", speaker |-> "SPEAKER_01", name |-> "Kim", confidence |-> 420],
      [kind |-> "content", speaker |-> "SPEAKER_01", name |-> "Lee", confidence |-> 360],
      [kind |-> "content", speaker |-> "SPEAKER_02", name |-> "Kim", confidence |-> 420],
      [kind |-> "content", speaker |-> "SPEAKER_02", name |-> "Lee", confidence |-> 300],
      [kind |-> "content", speaker |-> "SPEAKER_02", name |-> "Park", confidence |-> 240],
      [kind |-> "content", speaker |-> "SPEAKER_02", name |-> "Unknown", confidence |-> 300]>>

\* the entries of s that mask keeps, in order
RECURSIVE Pick(_, _)
Pick(s, mask) ==
    IF s = <<>> THEN <<>>
    ELSE (IF Head(mask) THEN <<Head(s)>> ELSE <<>>) \o Pick(Tail(s), Tail(mask))

Subsequences(s) == {Pick(s, mask) : mask \in [1..Len(s) -> BOOLEAN]}

\* meetings of three speakers whose mentions get some of the judgments of ScoreScript
ScoreRuns ==
    [kinds : {k \in [WideLabels -> {<<2, 0>>, <<3, 0>>, <<4, 0>>}] :
                 k["SPEAKER_00"] = <<3, 0>>},
     names : {<<"Kim", "Lee", "Park">>},
     rows : {<<>>},
     replies : Subsequences(ScoreScript)]

InitMerge ==
    \E in \in EliminationInputs \cup JudgmentRuns \cup ScoreRuns :
        LET reasoned == RunReasoner(in.replies, 1, <<>>, EmptyDict)
        IN  /\ OneRun
            /\ NoTables
            /\ pc = "merge_results"
            /\ user_id = 1
            /\ stt_result = Transcript(SortedLabels(WideLabels), in.kinds)
            /\ diar_result = [embeddings |->
                                [l \in {x \in WideLabels : in.kinds[x] # <<0, 0>>}
                                    |-> VoiceOfWide[l]]]
            /\ participant_names = in.names
            /\ name_mentions = Mentions(Len(in.replies))
            /\ db = [up |-> TRUE, rows |-> in.rows]
            /\ embeddings_api = [up |-> TRUE, vec |-> VoiceOfWide]
            /\ previous_profiles = ToolProfiles(in.rows)
            /\ auto_matched = AutoMatched(ToolProfiles(in.rows))
            /\ speaker_utterances = group_by_speaker(stt_result)
            /\ mapping_history = reasoned.history
            /\ name_based_results = reasoned.results
            /\ final_mappings = EmptyDict
            /\ needs_manual_review = <<>>
            /\ turn_num = IF in.replies = <<>> THEN 0 ELSE Len(in.replies) + 1
            /\ name_results = reasoned.results
            /\ llm_calls = in.replies

\* the replies of a long meeting repeat one of these patterns
HistoryPatterns ==
    {<<[kind |-> "content", speaker |-> "SPEAKER_00", name |-> "Kim", confidence |-> 480]>>,
     <<[kind |-> "content", speaker |-> "SPEAKER_00", name |-> "Kim", confidence |-> 480],
       [kind |-> "content", speaker |-> "SPEAKER_01", name |-> "Lee", confidence |-> 360],
       [kind |-> "raise", speaker |-> "", name |-> "", confidence |-> 0]>>,
     <<[kind |-> "timeout", speaker |-> "", name |-> "", confidence |-> 0],
       [kind |-> "content", speaker |-> "SPEAKER_01", name |-> "Kim", confidence |-> 360]>>}

RepeatPattern(p, k) == [i \in 1..k |-> p[((i - 1) % Len(p)) + 1]]

\* runs of up to MaxHistory name mentions that are inside the loop of
\* name_based_tagging_node, with one or two mentions left
InitHistory ==
    \E k \in 0..(MaxHistory - 1), left \in 1..2, p \in HistoryPatterns :
        LET replies == RepeatPattern(p, k)
            reasoned == RunReasoner(replies, 1, <<>>, EmptyDict)
        IN  /\ k + left <= MaxHistory
            /\ OneRun
            /\ NoTables
            /\ pc = "tagging_loop"
            /\ user_id = 1
            /\ stt_result = Transcript(SortedLabels(DiarLabels),
                                       [l \in DiarLabels |-> <<3, 0>>])
            /\ diar_result = [embeddings |-> VoiceOf]
            /\ participant_names = <<"Kim", "Lee">>
            /\ name_mentions = Mentions(k + left)
            /\ db = [up |-> TRUE, rows |-> <<>>]
            /\ embeddings_api = [up |-> TRUE, vec |-> VoiceOf]
            /\ previous_profiles = <<>>
            /\ auto_matched = EmptyDict
            /\ speaker_utterances = group_by_speaker(stt_result)
            /\ mapping_history = reasoned.history
            /\ name_based_results = EmptyDict
            /\ final_mappings = EmptyDict
            /\ needs_manual_review = <<>>
            /\ turn_num = k + 1
            /\ name_results = reasoned.results
            /\ llm_calls = replies

NextHistory == name_based_tagging_turn

NextMerge == merge_results_node

Next ==
    \/ load_profiles_node
    \/ embedding_match_node
    \/ name_extraction_node
    \/ name_based_tagging_node
    \/ name_based_tagging_turn
    \/ merge_results_node

\* the merger and the reasoner, over runs with few profiles
Spec == Init /\ [][Next]_vars

\* runs of two talkative speakers in every environment; LangGraph runs the next
\* node as soon as the previous one returns
FairSpec == InitFair /\ [][Next]_vars /\ WF_vars(Next)

\* the Profile Matcher, over runs with many profile stores
SpecMatch == InitMatch /\ [][Next]_vars

\* the merger, over the states in which the graph can enter it
SpecMerge == InitMerge /\ [][NextMerge]_vars

\* the reasoner's loop, over long meetings
SpecHistory == InitHistory /\ [][NextHistory]_vars

(***************************************************************************)
(* The API layer: analyze_speakers, process_audio_pipeline and the calls   *)
(* of run_tagging_agent for one meeting.  A call is "queued" as a          *)
(* background task, then at "invoke" (session open, graph running), then   *)
(* at "save" (writing SpeakerMapping rows), then "closed".                 *)
(***************************************************************************)
SetAt(runs, r, at) == [runs EXCEPT ![r].at = at]

\* lines 507-514 of processing.py: the status is committed as completed
process_audio_pipeline_commit ==
    /\ pipeline_pc = "processing"
    /\ file_status' = "completed"
    /\ pipeline_pc' = "committed"
    /\ UNCHANGED <<agent_runs, responses, graph_state, tables>>

\* lines 551-580: the pipeline runs run_tagging_agent on a loop of its own thread
process_audio_pipeline_agent ==
    /\ pipeline_pc = "committed"
    /\ agent_runs' = Append(agent_runs, [by |-> "pipeline", at |-> "invoke"])
    /\ pipeline_pc' = "agent"
    /\ UNCHANGED <<file_status, responses, graph_state, tables>>

\* run_until_complete returns when the pipeline's call has ended
process_audio_pipeline_return ==
    /\ pipeline_pc = "agent"
    /\ \A r \in DOMAIN agent_runs :
          agent_runs[r].by = "pipeline" => agent_runs[r].at = "closed"
    /\ pipeline_pc' = "returned"
    /\ UNCHANGED <<file_status, agent_runs, responses, graph_state, tables>>

\* POST /analyze/{file_id}
analyze_speakers ==
    /\ Len(responses) < MaxRequests
    /\ IF file_status = "processing"
       THEN /\ responses' = Append(responses, "processing")
            /\ UNCHANGED agent_runs
       ELSE /\ agent_runs' = Append(agent_runs, [by |-> "analyze", at |-> "queued"])
            /\ responses' = Append(responses, "started")
    /\ UNCHANGED <<file_status, pipeline_pc, graph_state, tables>>

\* the background task starts: lines 360-400 of tagging.py
run_tagging_agent_begin ==
    /\ \E r \in DOMAIN agent_runs :
          /\ agent_runs[r].at = "queued"
          /\ agent_runs' = SetAt(agent_runs, r, "invoke")
    /\ UNCHANGED <<file_status, pipeline_pc, responses, graph_state, tables>>

\* ainvoke has returned: lines 402-440
run_tagging_agent_save ==
    /\ \E r \in DOMAIN agent_runs :
          /\ agent_runs[r].at = "invoke"
          /\ agent_runs' = SetAt(agent_runs, r, "save")
    /\ UNCHANGED <<file_status, pipeline_pc, responses, graph_state, tables>>

\* commit or rollback, and db.close(): lines 442-451
run_tagging_agent_close ==
    /\ \E r \in DOMAIN agent_runs :
          /\ agent_runs[r].at = "save"
          /\ agent_runs' = SetAt(agent_runs, r, "closed")
    /\ UNCHANGED <<file_status, pipeline_pc, responses, graph_state, tables>>

\* no graph is modelled in these runs
GraphIdle ==
    /\ pc = "idle"
    /\ user_id = 1
    /\ stt_result = <<>>
    /\ diar_result = [embeddings |-> EmptyDict]
    /\ participant_names = <<>>
    /\ name_mentions = <<>>
    /\ db = [up |-> TRUE, rows |-> <<>>]
    /\ embeddings_api = [up |-> TRUE, vec |-> EmptyDict]
    /\ previous_profiles = <<>>
    /\ auto_matched = EmptyDict
    /\ speaker_utterances = EmptyDict
    /\ mapping_history = <<>>
    /\ name_based_results = EmptyDict
    /\ final_mappings = EmptyDict
    /\ needs_manual_review = <<>>
    /\ turn_num = 0
    /\ name_results = EmptyDict
    /\ llm_calls = <<>>

\* the meeting is being processed, or has been processed earlier
InitService ==
    /\ \/ file_status = "processing" /\ pipeline_pc = "processing"
       \/ file_status = "completed" /\ pipeline_pc = "returned"
    /\ agent_runs = <<>>
    /\ responses = <<>>
    /\ NoTables
    /\ GraphIdle

NextService ==
    \/ process_audio_pipeline_commit
    \/ process_audio_pipeline_agent
    \/ process_audio_pipeline_return
    \/ analyze_speakers
    \/ run_tagging_agent_begin
    \/ run_tagging_agent_save
    \/ run_tagging_agent_close

SpecService == InitService /\ [][NextService]_vars

(***************************************************************************)
(* run_tagging_agent with its graph and its session: the rows it writes    *)
(* to speaker_mappings become visible at db.commit() and are dropped by    *)
(* db.rollback() or by db.close() without a commit                         *)
(***************************************************************************)
\* audio_file_id of the meeting of the run, and of another meeting
ThisMeeting == 1
OtherMeeting == 2

\* a column that is NULL
NULL == "NULL"

\* lines 416-419 and 429-432
CountMentions(mentions, name) ==
    Cardinality({k \in DOMAIN mentions : mentions[k].name = name})

\* an update that also resets what the user confirmed, as the insert does
UpdateMapping_reset(row, info, mentions) ==
    [row EXCEPT !.suggested_name = info.name,
                !.name_confidence = info.confidence,
                !.name_mentions = CountMentions(mentions, info.name),
                !.needs_manual_review = info.needs_review,
                !.conflict_detected = FALSE,
                !.final_name = "",
                !.is_modified = FALSE]

\* lines 412-421
UpdateMapping(row, info, mentions) ==
    [row EXCEPT !.suggested_name = info.name,
                !.name_confidence = info.confidence,
                !.name_mentions = CountMentions(mentions, info.name),
                !.needs_manual_review = info.needs_review,
                !.conflict_detected = FALSE]

\* lines 422-440; nickname is not set and defaults to NULL
NewMapping(info, mentions) ==
    [suggested_name |-> info.name,
     name_confidence |-> info.confidence,
     name_mentions |-> CountMentions(mentions, info.name),
     suggested_role |-> NULL,
     role_confidence |-> NULL,
     nickname |-> NULL,
     conflict_detected |-> FALSE,
     needs_manual_review |-> info.needs_review,
     final_name |-> "",
     is_modified |-> FALSE]

\* lines 405-440: the table as the session sees it after the loop
SaveMappings(rows, audio_file_id, final, mentions) ==
    [key \in DOMAIN rows \cup {<<audio_file_id, l>> : l \in DOMAIN final} |->
        IF key[1] = audio_file_id /\ key[2] \in DOMAIN final
        THEN IF key \in DOMAIN rows
             THEN UpdateMapping(rows[key], final[key[2]], mentions)
             ELSE NewMapping(final[key[2]], mentions)
        ELSE rows[key]]

\* a handler that keeps what the session had written
RolledBack_flushed(committed, pending) == pending

\* lines 445-451: the table after db.rollback() or db.close() without commit
RolledBack(committed, pending) == committed

\* lines 402-440: ainvoke has returned and the loop has written to the session
run_tagging_agent_write ==
    /\ pc = "done"
    /\ \E r \in DOMAIN agent_runs :
          /\ agent_runs[r].at = "invoke"
          /\ agent_runs' = SetAt(agent_runs, r, "save")
    /\ UNCHANGED <<file_status, pipeline_pc, responses, graph_state, tables>>

\* lines 442-443 and 451
run_tagging_agent_commit ==
    /\ pc = "done"
    /\ \E r \in DOMAIN agent_runs :
          /\ agent_runs[r].at = "save"
          /\ agent_runs' = SetAt(agent_runs, r, "closed")
    /\ speaker_mappings' = SaveMappings(speaker_mappings, ThisMeeting, final_mappings,
                                        name_mentions)
    /\ pc' = "saved"
    /\ UNCHANGED <<file_status, pipeline_pc, responses, inputs, previous_profiles,
                   auto_matched, speaker_utterances, mapping_history, name_based_results,
                   final_mappings, needs_manual_review, turn_num, name_results, llm_calls,
                   confirmations>>

\* lines 445-451: the task is cancelled or an exception ends it, inside ainvoke at
\* any node or mention, or while the rows are written or committed
run_tagging_agent_except ==
    /\ pc \notin {"failed", "saved"}
    /\ \E r \in DOMAIN agent_runs :
          /\ agent_runs[r].at \in {"invoke", "save"}
          /\ agent_runs' = SetAt(agent_runs, r, "closed")
          /\ speaker_mappings' =
                RolledBack(speaker_mappings,
                           IF agent_runs[r].at = "save"
                           THEN SaveMappings(speaker_mappings, ThisMeeting, final_mappings,
                                             name_mentions)
                           ELSE speaker_mappings)
    /\ pc' = "failed"
    /\ UNCHANGED <<file_status, pipeline_pc, responses, inputs, previous_profiles,
                   auto_matched, speaker_utterances, mapping_history, name_based_results,
                   final_mappings, needs_manual_review, turn_num, name_results, llm_calls,
                   confirmations>>

\* a row the user has confirmed with a name of their own, and one they have not
ConfirmedRow ==
    [suggested_name |-> "Lee", name_confidence |-> 360, name_mentions |-> 1,
     suggested_role |-> "host", role_confidence |-> 480, nickname |-> "organiser",
     conflict_detected |-> TRUE, needs_manual_review |-> TRUE,
     final_name |-> "Park", is_modified |-> TRUE]

SuggestedRow ==
    [suggested_name |-> "Kim", name_confidence |-> 480, name_mentions |-> 2,
     suggested_role |-> NULL, role_confidence |-> NULL, nickname |-> NULL,
     conflict_detected |-> FALSE, needs_manual_review |-> FALSE,
     final_name |-> "", is_modified |-> FALSE]

\* the table before the run: empty, or with rows of an earlier run of this meeting
\* and of another meeting
StoredMappings ==
    {EmptyDict,
     [key \in {<<ThisMeeting, "SPEAKER_00">>, <<OtherMeeting, "SPEAKER_00">>} |->
         ConfirmedRow],
     [key \in {<<ThisMeeting, "SPEAKER_00">>, <<ThisMeeting, "SPEAKER_01">>,
               <<OtherMeeting, "SPEAKER_01">>} |->
         IF key[2] = "SPEAKER_00" THEN ConfirmedRow ELSE SuggestedRow]}

InitPersist ==
    /\ \E in \in FailureInputs : InitWith(in)
    /\ speaker_mappings \in StoredMappings
    /\ confirmations = <<>>

NextPersist ==
    \/ Next
    \/ run_tagging_agent_write
    \/ run_tagging_agent_commit
    \/ run_tagging_agent_except

\* one call of run_tagging_agent, from initial_state to db.close()
SpecPersist == InitPersist /\ [][NextPersist]_vars

(***************************************************************************)
(* The confirmation endpoints: POST /tagging/confirm (confirm_tagging) and *)
(* POST /speaker-profiles/save (save_speaker_profile).  The profiles are   *)
(* the rows of db; each request runs in a session of its own.              *)
(***************************************************************************)
\* a third meeting, of another user
GuestMeeting == 3

Meetings == {ThisMeeting, OtherMeeting, GuestMeeting}

\* AudioFile.user_id
OwnerOf(audio_file_id) == IF audio_file_id = GuestMeeting THEN 2 ELSE 1

\* what a query of the session sees: the committed rows and the rows added in the
\* session (the session factory is app/db/base.py)
Visible(committed, added) == committed \o added

\* the rows of one user and name, in table order
ProfileMatches(rows, uid, name) ==
    {i \in DOMAIN rows : rows[i].user_id = uid /\ rows[i].speaker_name = name}

\* .first(): without ORDER BY the database returns the matching rows in table order
FirstMatch(matches) == CHOOSE i \in matches : \A j \in matches : i <= j

\* an update that records the meeting and leaves the score
IncrementProfile_source(row, audio_file_id) ==
    [row EXCEPT !.source_audio_file_id = audio_file_id]

\* tagging.py:601-602 and speaker_profile.py:74-75
IncrementProfile(row, audio_file_id) ==
    [row EXCEPT !.confidence_score = row.confidence_score + 1,
                !.source_audio_file_id = audio_file_id]

\* tagging.py:609-650 and speaker_profile.py:83-135: the voice embedding is the mean
\* of the speaker's diarization embeddings, the text embedding is absent when the
\* embedding service fails
NewProfile(uid, name, audio_file_id, speaker_label) ==
    [user_id |-> uid, speaker_name |-> name,
     voice_embedding |-> VoiceOf[speaker_label],
     text_embedding |-> IF embeddings_api.up THEN VoiceOf[speaker_label] ELSE NoVector,
     source_audio_file_id |-> audio_file_id, confidence_score |-> 1]

\* the row at position i of the session's view replaced by row
SetVisible(session, i, row) ==
    IF i <= Len(session.committed)
    THEN [session EXCEPT !.committed[i] = row]
    ELSE [session EXCEPT !.added[i - Len(session.committed)] = row]

\* tagging.py:588-655: the loop over request.mappings; session is [committed, added]
RECURSIVE ConfirmProfiles(_, _, _)
ConfirmProfiles(session, audio_file_id, mappings) ==
    IF mappings = <<>> THEN session
    ELSE LET mapping == Head(mappings)
             view == Visible(session.committed, session.added)
             matches == ProfileMatches(view, OwnerOf(audio_file_id), mapping.final_name)
         IN  IF mapping.final_name = ""
             THEN ConfirmProfiles(session, audio_file_id, Tail(mappings))
             ELSE IF matches # {}
             THEN ConfirmProfiles(
                      SetVisible(session, FirstMatch(matches),
                                 IncrementProfile(view[FirstMatch(matches)], audio_file_id)),
                      audio_file_id, Tail(mappings))
             ELSE ConfirmProfiles(
                      [session EXCEPT !.added =
                          Append(session.added,
                                 NewProfile(OwnerOf(audio_file_id), mapping.final_name,
                                            audio_file_id, mapping.speaker_label))],
                      audio_file_id, Tail(mappings))

\* tagging.py:503-530: final_name and is_modified of the rows of the request
RECURSIVE ConfirmMappings(_, _, _)
ConfirmMappings(rows, audio_file_id, mappings) ==
    IF mappings = <<>> THEN rows
    ELSE LET mapping == Head(mappings)
             key == <<audio_file_id, mapping.speaker_label>>
             row == IF key \in DOMAIN rows
                    THEN [rows[key] EXCEPT
                             !.final_name = mapping.final_name,
                             !.is_modified = rows[key].suggested_name # mapping.final_name]
                    ELSE [suggested_name |-> NULL, name_confidence |-> NULL,
                          name_mentions |-> 0, suggested_role |-> NULL,
                          role_confidence |-> NULL, nickname |-> NULL,
                          conflict_detected |-> FALSE, needs_manual_review |-> FALSE,
                          final_name |-> mapping.final_name, is_modified |-> TRUE]
         IN  ConfirmMappings(Put(rows, key, row), audio_file_id, Tail(mappings))

\* the names a request confirms, for the log
RECURSIVE ConfirmedNames(_, _)
ConfirmedNames(audio_file_id, mappings) ==
    IF mappings = <<>> THEN <<>>
    ELSE (IF Head(mappings).final_name = "" THEN <<>>
          ELSE <<[user_id |-> OwnerOf(audio_file_id), name |-> Head(mappings).final_name,
                  by |-> "confirm_tagging"]>>)
         \o ConfirmedNames(audio_file_id, Tail(mappings))

\* the bodies of the requests the user sends
MappingLists ==
    {<<[speaker_label |-> "SPEAKER_00", final_name |-> "Kim"]>>,
     <<[speaker_label |-> "SPEAKER_00", final_name |-> "Kim"],
       [speaker_label |-> "SPEAKER_01", final_name |-> "Kim"]>>,
     <<[speaker_label |-> "SPEAKER_00", final_name |-> ""],
       [speaker_label |-> "SPEAKER_01", final_name |-> "Lee"]>>}

\* POST /tagging/confirm
confirm_tagging ==
    /\ Len(responses) < MaxConfirmRequests
    /\ \E audio_file_id \in Meetings, mappings \in MappingLists :
          LET session == ConfirmProfiles([committed |-> db.rows, added |-> <<>>],
                                         audio_file_id, mappings)
          IN  /\ speaker_mappings' = ConfirmMappings(speaker_mappings, audio_file_id, mappings)
              /\ db' = [db EXCEPT !.rows = Visible(session.committed, session.added)]
              /\ confirmations' = confirmations \o ConfirmedNames(audio_file_id, mappings)
              /\ responses' = Append(responses, "confirmed")
    /\ UNCHANGED <<pc, user_id, stt_result, diar_result, participant_names, name_mentions,
                   embeddings_api, previous_profiles, auto_matched, speaker_utterances,
                   mapping_history, name_based_results, final_mappings,
                   needs_manual_review, turn_num, name_results, llm_calls,
                   file_status, pipeline_pc, agent_runs>>

\* POST /speaker-profiles/save
save_speaker_profile ==
    /\ Len(responses) < MaxConfirmRequests
    /\ \E audio_file_id \in Meetings, speaker_name \in {"Kim", "Lee"} :
          LET speaker_label == "SPEAKER_00"
              matches == ProfileMatches(db.rows, OwnerOf(audio_file_id), speaker_name)
              confirmation == [user_id |-> OwnerOf(audio_file_id), name |-> speaker_name,
                               by |-> "save_speaker_profile"]
          IN  IF <<audio_file_id, speaker_label>> \notin DOMAIN speaker_mappings
              THEN /\ responses' = Append(responses, "404")
                   /\ UNCHANGED <<db, confirmations>>
              ELSE IF matches # {}
              THEN /\ db' = [db EXCEPT !.rows[FirstMatch(matches)] =
                                IncrementProfile(db.rows[FirstMatch(matches)], audio_file_id)]
                   /\ confirmations' = Append(confirmations, confirmation)
                   /\ responses' = Append(responses, "updated")
              ELSE /\ db' = [db EXCEPT !.rows =
                                Append(db.rows, NewProfile(OwnerOf(audio_file_id), speaker_name,
                                                           audio_file_id, speaker_label))]
                   /\ confirmations' = Append(confirmations, confirmation)
                   /\ responses' = Append(responses, "saved")
    /\ UNCHANGED <<pc, user_id, stt_result, diar_result, participant_names, name_mentions,
                   embeddings_api, previous_profiles, auto_matched, speaker_utterances,
                   mapping_history, name_based_results, final_mappings,
                   needs_manual_review, turn_num, name_results, llm_calls,
                   file_status, pipeline_pc, agent_runs, speaker_mappings>>

\* the meetings have been processed; no profile is stored and nothing is confirmed
InitConfirm ==
    /\ file_status = "completed"
    /\ pipeline_pc = "returned"
    /\ agent_runs = <<>>
    /\ responses = <<>>
    /\ speaker_mappings \in StoredMappings
    /\ confirmations = <<>>
    /\ GraphIdle

NextConfirm ==
    \/ confirm_tagging
    \/ save_speaker_profile

SpecConfirm == InitConfirm /\ [][NextConfirm]_vars

(***************************************************************************)
(* Properties of the final mapping                                         *)
(***************************************************************************)
Finished == pc = "done"

\* the speaker labels of the diarization output
ObservedLabels == DOMAIN diar_result.embeddings

MappedLabels == DOMAIN final_mappings

\* C1: after merge_results_node the final mapping has exactly one entry for every
\* speaker label of the diarization output, labels without transcript text included
C1_EveryLabelMapped ==
    Finished => \A l \in ObservedLabels : l \in MappedLabels

\* C2: two distinct labels of the final mapping never carry the same name, unless
\* the name is "Unknown"
C2_NamesUnique ==
    Finished =>
        \A a, b \in MappedLabels :
            (a # b /\ final_mappings[a].name # "Unknown" /\ final_mappings[b].name # "Unknown")
                => final_mappings[a].name # final_mappings[b].name

\* C3: a speaker that was auto-matched keeps the auto-matched name, confidence 1.0,
\* method embedding and auto_matched true in the final mapping
C3_AutoMatchKept ==
    Finished =>
        \A l \in DOMAIN auto_matched :
            /\ l \in MappedLabels
            /\ final_mappings[l].name = auto_matched[l]
            /\ final_mappings[l].confidence = ConfScale
            /\ final_mappings[l].match_method = "embedding"
            /\ final_mappings[l].auto_matched

\* C4: every name of the final mapping is "Unknown" or one of participant_names
C4_NamesFromParticipants ==
    Finished =>
        \A l \in MappedLabels :
            final_mappings[l].name \in Range(participant_names) \cup {"Unknown"}

\* C5: in every entry of the final mapping, needs_review is true exactly when
\* confidence < 0.7 or the method is elimination or none
C5_ReviewCoupling ==
    Finished =>
        \A l \in MappedLabels :
            final_mappings[l].needs_review
                <=> (final_mappings[l].confidence * 10 < 7 * ConfScale
                     \/ final_mappings[l].match_method \in {"elimination", "none"})

\* a finished run whose mapping has a name-based entry that needs no review, a
\* score-based entry that does, and an entry made by elimination or left Unknown
C5_Witness ==
    /\ Finished
    /\ \E l \in MappedLabels :
          final_mappings[l].match_method = "score_based" /\ final_mappings[l].needs_review
    /\ \E l \in MappedLabels :
          final_mappings[l].match_method = "name_based" /\ ~final_mappings[l].needs_review

\* C6: every entry with auto_matched = true has confidence 1.0 and method embedding
C6_AutoMatchedShape ==
    Finished =>
        \A l \in MappedLabels :
            final_mappings[l].auto_matched
                => (final_mappings[l].confidence = ConfScale
                    /\ final_mappings[l].match_method = "embedding")

\* a finished run with one auto-matched entry and one entry of another method
C6_Witness ==
    /\ Finished
    /\ \E l \in MappedLabels : final_mappings[l].auto_matched
    /\ \E l \in MappedLabels : ~final_mappings[l].auto_matched

\* C7: running the merger again on the inputs of a finished run gives the same
\* final mapping, whatever order the sets are iterated in
C7_MergerDeterministic ==
    Finished =>
        \A speaker_order \in SpeakerOrders, name_order \in NameOrders :
            MergeResult(speaker_order, name_order).final = final_mappings

C9_FailureFallback ==
    /\ Len(mapping_history) = Len(llm_calls)
    /\ \A k \in DOMAIN llm_calls :
          LLMFailed(llm_calls[k])
              => /\ mapping_history[k].speaker = "Unknown"
                 /\ mapping_history[k].name = "Unknown"
                 /\ mapping_history[k].confidence = 0
                 /\ mapping_history[k].turn = k
    /\ pc \in {"merge_results", "done"} => Len(llm_calls) = Len(name_mentions)

\* a finished run whose first reasoning call failed and whose later calls returned
\* a valid judgment
C9_Witness ==
    /\ Finished
    /\ Len(llm_calls) >= 3
    /\ LLMFailed(llm_calls[1])
    /\ \A k \in 2..Len(llm_calls) : ~LLMFailed(llm_calls[k])

(***************************************************************************)
(* Properties of the Profile Matcher                                       *)
(***************************************************************************)
Matched == pc \notin {"load_profiles", "embedding_match"}

HasSegments(l) == \E i \in DOMAIN stt_result : stt_result[i].speaker = l

VoiceSim(l, p) == Cosine(diar_result.embeddings[l], p.voice_embedding)

\* the similarity of the speaker's embedded utterances to the profile's text
\* embedding, 0 when there is no embedding of them
TextSim(l, p) ==
    IF HasSegments(l) /\ embeddings_api.up
    THEN Cosine(embeddings_api.vec[l], p.text_embedding) ELSE Sim0

\* profile i has the strictly highest similarity of its channel
VoiceSelects(l, i) ==
    \A j \in DOMAIN previous_profiles :
        j # i => SimGT(VoiceSim(l, previous_profiles[i]), VoiceSim(l, previous_profiles[j]))

TextSelects(l, i) ==
    \A j \in DOMAIN previous_profiles :
        j # i => SimGT(TextSim(l, previous_profiles[i]), TextSim(l, previous_profiles[j]))

\* C10: a speaker is auto-matched to a profile if and only if its voice similarity
\* and its text similarity to the profile are both >= 0.85 and both channels select
\* that profile as their best match
C10_AutoMatchIff ==
    Matched =>
        \A l \in ObservedLabels : \A i \in DOMAIN previous_profiles :
            (l \in DOMAIN auto_matched /\ auto_matched[l] = previous_profiles[i].name)
                <=> (/\ SimGE(VoiceSim(l, previous_profiles[i]), Threshold)
                     /\ SimGE(TextSim(l, previous_profiles[i]), Threshold)
                     /\ VoiceSelects(l, i)
                     /\ TextSelects(l, i))

\* profile i is one of two or more stored profiles, of different names, that share
\* the highest similarity of a channel
VoiceTie(l, i) ==
    /\ \A k \in DOMAIN previous_profiles :
          SimGE(VoiceSim(l, previous_profiles[i]), VoiceSim(l, previous_profiles[k]))
    /\ \E j \in DOMAIN previous_profiles :
          /\ previous_profiles[j].name # previous_profiles[i].name
          /\ SimGE(VoiceSim(l, previous_profiles[j]), VoiceSim(l, previous_profiles[i]))

TextTie(l, i) ==
    /\ \A k \in DOMAIN previous_profiles :
          SimGE(TextSim(l, previous_profiles[i]), TextSim(l, previous_profiles[k]))
    /\ \E j \in DOMAIN previous_profiles :
          /\ previous_profiles[j].name # previous_profiles[i].name
          /\ SimGE(TextSim(l, previous_profiles[j]), TextSim(l, previous_profiles[i]))

\* C11: when two or more stored profiles (here: of different names) tie exactly for
\* the highest similarity of the voice channel or of the text channel, the channel
\* selects no profile and the speaker is not auto-matched
C11_TieSelectsNone ==
    Matched =>
        \A l \in ObservedLabels :
            (\E i \in DOMAIN previous_profiles : VoiceTie(l, i) \/ TextTie(l, i))
                => l \notin DOMAIN auto_matched

\* a vector that is absent, empty or of norm 0
Degenerate(v) == v = NoVector \/ NormSq(v) = 0

\* C12: the matcher never raises; with zero stored profiles auto_matched is empty;
\* and a speaker is auto-matched only if its voice vector and the embedding of its
\* text are not degenerate and, in each channel, a stored profile of the matched name
\* has a vector that is not degenerate
C12_DegenerateNeverMatches ==
    /\ pc # "raised"
    /\ Matched =>
          /\ previous_profiles = <<>> => auto_matched = EmptyDict
          /\ \A l \in DOMAIN auto_matched :
                /\ l \in ObservedLabels
                /\ ~Degenerate(diar_result.embeddings[l])
                /\ ~Degenerate(embeddings_api.vec[l])
                /\ \E i \in DOMAIN previous_profiles :
                      /\ previous_profiles[i].name = auto_matched[l]
                      /\ ~Degenerate(previous_profiles[i].voice_embedding)
                /\ \E i \in DOMAIN previous_profiles :
                      /\ previous_profiles[i].name = auto_matched[l]
                      /\ ~Degenerate(previous_profiles[i].text_embedding)

\* the matcher has run over a store that holds a profile without a voice vector and
\* a profile whose text vector has norm 0, for a transcript with a speaker that has
\* no embedding, and has auto-matched the other speaker to a third profile
C12_Witness ==
    /\ Matched
    /\ \E i \in DOMAIN previous_profiles : previous_profiles[i].voice_embedding = NoVector
    /\ \E i \in DOMAIN previous_profiles : previous_profiles[i].text_embedding = Zero
    /\ \E l \in DiarLabels : l \notin ObservedLabels
    /\ auto_matched # EmptyDict

(***************************************************************************)
(* Properties of the merger                                                *)
(***************************************************************************)
\* all_speakers of merge_results_node
AllSpeakers == DOMAIN speaker_utterances

\* n speakers, n distinct participant names, no auto-match, no mention evidence,
\* and at least 3 utterances of every speaker
EliminationScenario ==
    /\ AllSpeakers # {}
    /\ Cardinality(AllSpeakers) = Len(participant_names)
    /\ Cardinality(Range(participant_names)) = Len(participant_names)
    /\ auto_matched = EmptyDict
    /\ name_based_results = EmptyDict
    /\ \A l \in AllSpeakers : Len(speaker_utterances[l]) >= 3

\* C13: given n speakers and n distinct participant names, no auto-match, zero
\* mention evidence and at least 3 utterances of every speaker, every speaker gets a
\* participant name, the names are pairwise distinct, and every entry has method
\* elimination and confidence 0.50
C13_EliminationAssignsAll ==
    (Finished /\ EliminationScenario) =>
        /\ MappedLabels = AllSpeakers
        /\ \A l \in AllSpeakers :
              /\ final_mappings[l].name \in Range(participant_names)
              /\ final_mappings[l].match_method = "elimination"
              /\ final_mappings[l].confidence * 2 = ConfScale
        /\ \A a, b \in AllSpeakers : a # b => final_mappings[a].name # final_mappings[b].name

\* the spec's scenario has been merged: 3 speakers and 3 participant names
C13_Witness ==
    /\ Finished
    /\ EliminationScenario
    /\ Cardinality(AllSpeakers) = 3

\* the judgments of the reasoner that name speaker s as the holder of name n
Judgments == Flatten(name_based_results)

JudgmentsOf(s, n) ==
    LET Names(r) == r.speaker = s /\ r.name = n IN SelectSeq(Judgments, Names)

RECURSIVE SumConfidence(_)
SumConfidence(js) == IF js = <<>> THEN 0 ELSE Head(js).confidence + SumConfidence(Tail(js))

\* (average confidence of a's judgments for n, their number) is greater than that
\* of b, both having at least one
ClaimKeyGT(a, b, n) ==
    LET ja == JudgmentsOf(a, n)
        jb == JudgmentsOf(b, n)
    IN  \/ SumConfidence(ja) * Len(jb) > SumConfidence(jb) * Len(ja)
        \/ /\ SumConfidence(ja) * Len(jb) = SumConfidence(jb) * Len(ja)
           /\ Len(ja) > Len(jb)

\* the initial candidates of the merger for the judgments of this run
InitialCandidates ==
    Range(InitialMapping(SortedLabels(AllSpeakers), auto_matched, name_based_results))

Claimants(n) == {e.speaker : e \in {x \in InitialCandidates : x.name = n}}

\* the speakers that hold name n by a name-based entry in the final mapping
Keepers(n) ==
    {l \in MappedLabels :
        final_mappings[l].match_method = "name_based" /\ final_mappings[l].name = n}

\* C14: when more than one speaker's initial candidate is the same name, exactly one
\* of them keeps the name, and no other claimant has a higher (average confidence
\* for that name, number of its judgments naming that name)
C14_DuplicateWinner ==
    Finished =>
        \A n \in {e.name : e \in InitialCandidates} :
            Cardinality(Claimants(n)) > 1 =>
                /\ Cardinality(Keepers(n)) = 1
                /\ Keepers(n) \subseteq Claimants(n)
                /\ \A w \in Keepers(n), c \in Claimants(n) : ~ClaimKeyGT(c, w, n)

\* the names that the judgments give to speaker s
NamesGiven(s) == {Judgments[k].name : k \in {i \in DOMAIN Judgments : Judgments[i].speaker = s}}

\* (number of s's judgments naming m, their average confidence) is greater than that
\* of n
NameKeyGT(s, m, n) ==
    LET jm == JudgmentsOf(s, m)
        jn == JudgmentsOf(s, n)
    IN  \/ Len(jm) > Len(jn)
        \/ /\ Len(jm) = Len(jn)
           /\ SumConfidence(jm) * Len(jn) > SumConfidence(jn) * Len(jm)

\* C19: the merger's initial mapping has one candidate for each speaker that is not
\* auto-matched and has a judgment, and none for the others; the candidate's name has
\* the highest (occurrence count, average confidence) among the speaker's judgments
\* and its confidence is the average confidence of the judgments for that name
C19_InitialCandidate ==
    Finished =>
        \A speaker_order \in SpeakerOrders :
            LET initial == InitialMapping(speaker_order, auto_matched, name_based_results)
            IN  /\ {initial[k].speaker : k \in DOMAIN initial}
                      = {s \in AllSpeakers \ DOMAIN auto_matched : NamesGiven(s) # {}}
                /\ \A j, k \in DOMAIN initial : initial[j].speaker = initial[k].speaker => j = k
                /\ \A k \in DOMAIN initial :
                      /\ initial[k].name \in NamesGiven(initial[k].speaker)
                      /\ \A m \in NamesGiven(initial[k].speaker) :
                            ~NameKeyGT(initial[k].speaker, m, initial[k].name)
                      /\ initial[k].confidence
                              * Len(JudgmentsOf(initial[k].speaker, initial[k].name))
                            = SumConfidence(JudgmentsOf(initial[k].speaker, initial[k].name))

\* a merged run in which a speaker's candidate was its most frequent name although a
\* rarer name had the higher average confidence, and a speaker without judgment
C19_Witness ==
    /\ Finished
    /\ \E l \in MappedLabels : \E m \in NamesGiven(l) :
          /\ final_mappings[l].match_method = "name_based"
          /\ Len(JudgmentsOf(l, final_mappings[l].name)) > Len(JudgmentsOf(l, m))
          /\ SumConfidence(JudgmentsOf(l, m)) * Len(JudgmentsOf(l, final_mappings[l].name))
                > SumConfidence(JudgmentsOf(l, final_mappings[l].name)) * Len(JudgmentsOf(l, m))
    /\ \E l \in AllSpeakers : NamesGiven(l) = {}

\* C20: the first elimination pass assigns names only when |U| = |N| > 0, where U
\* is the speakers without mapping after duplicate resolution, auto-matched speakers
\* excluded, and N is the participant names used neither by a surviving candidate
\* nor by an auto-matched speaker; it assigns them to speakers of U and from N
C20_EliminationGuard ==
    Finished =>
        \A speaker_order \in SpeakerOrders, name_order \in NameOrders :
            LET initial == InitialMapping(speaker_order, auto_matched, name_based_results)
                kept == Range(RemoveDuplicates(initial))
                refined == Range(apply_elimination_method(initial, AllSpeakers,
                                     participant_names, speaker_utterances, name_order))
                assigned == {e \in refined : e.method = "elimination"}
                U == (AllSpeakers \ DOMAIN auto_matched) \ {e.speaker : e \in kept}
                N == (Range(participant_names) \ {e.name : e \in kept})
                         \ {auto_matched[l] : l \in DOMAIN auto_matched}
            IN  /\ assigned # {} => (Cardinality(U) = Cardinality(N) /\ Cardinality(U) > 0)
                /\ \A e \in assigned : e.speaker \in U /\ e.name \in N

(***************************************************************************)
(* Properties of the graph and of the reasoner                             *)
(***************************************************************************)
\* a name-mention event names somebody outside participant_names, or a transcript
\* segment carries a speaker label that the diarization result does not have
MalformedInput ==
    \/ \E k \in DOMAIN name_mentions : name_mentions[k].name \notin Range(participant_names)
    \/ \E i \in DOMAIN stt_result : stt_result[i].speaker \notin ObservedLabels

\* C16: a run on malformed required input raises and produces no final mapping
C16_MalformedInputFails ==
    MalformedInput => (~Finished /\ final_mappings = EmptyDict)

\* the place of a node in the graph; the loop of name_based_tagging_node is part of
\* the fourth stage
StageOf(p) ==
    CASE p = "load_profiles" -> 1
      [] p = "embedding_match" -> 2
      [] p = "name_extraction" -> 3
      [] p \in {"name_based_tagging", "tagging_loop"} -> 4
      [] p = "merge_results" -> 5
      [] p = "done" -> 6
      [] OTHER -> 0

\* C17: every step either ends a stage and starts the next one in the order
\* load_profiles, embedding_match, name_extraction, name_based_tagging,
\* merge_results, end, or is a step inside name_based_tagging; so every stage runs
\* once, after its predecessor, and none is skipped or repeated
C17_StagesInOrder ==
    [][\/ StageOf(pc') = StageOf(pc) + 1 /\ pc' # "tagging_loop"
       \/ pc \in {"name_based_tagging", "tagging_loop"} /\ pc' = "tagging_loop"]_vars

\* a run has gone through all five stages, each of which had work to do
C17_Witness ==
    /\ Finished
    /\ previous_profiles # <<>>
    /\ auto_matched # EmptyDict
    /\ speaker_utterances # EmptyDict
    /\ llm_calls # <<>>
    /\ final_mappings # EmptyDict

\* C18: no reasoning call is made for a name-mention event whose mentioned name the
\* Profile Matcher has auto-matched to a speaker (call k is for event k)
C18_NoCallForAutoMatched ==
    \A k \in DOMAIN llm_calls :
        name_mentions[k].name \notin {auto_matched[l] : l \in DOMAIN auto_matched}

(***************************************************************************)
(* Properties of the API layer                                             *)
(***************************************************************************)
\* the calls of run_tagging_agent that are executing
ActiveRuns == {r \in DOMAIN agent_runs : agent_runs[r].at \in {"invoke", "save"}}

\* C15: at most one resolution run is active for the meeting at any time
C15_OneActiveRun == Cardinality(ActiveRuns) <= 1

(***************************************************************************)
(* Properties of the later stages of the merger                            *)
(***************************************************************************)
\* the final entries written by apply_elimination_method or by residual elimination
EliminationLabels == {l \in MappedLabels : final_mappings[l].match_method = "elimination"}

\* C21: every final entry whose method is elimination has confidence 0.50 and
\* needs_review true, belongs to a speaker with at least 3 utterances, and carries a
\* name that no other entry of the final mapping uses
C21_EliminationEntries ==
    Finished =>
        \A l \in EliminationLabels :
            /\ final_mappings[l].confidence * 2 = ConfScale
            /\ final_mappings[l].needs_review
            /\ l \in AllSpeakers /\ Len(speaker_utterances[l]) >= 3
            /\ \A o \in MappedLabels \ {l} : final_mappings[o].name # final_mappings[l].name

\* final_mappings and needs_review after line 171, before second-chance scoring
WrittenMapping(speaker_order, name_order) ==
    WriteRefined(apply_elimination_method(
                     InitialMapping(speaker_order, auto_matched, name_based_results),
                     AllSpeakers, participant_names, speaker_utterances, name_order),
                 [final |-> SeedAutoMatched(auto_matched), review |-> <<>>])

\* the same after line 218, the end of the scoring pass
ScoredMapping(speaker_order, name_order) ==
    ScoringPass(speaker_order, WrittenMapping(speaker_order, name_order),
                name_based_results, participant_names)

\* C22: after second-chance scoring no speaker that is still unmapped has a judgment
\* naming a participant name that is still unused (a candidate exists for every pair
\* of an unmapped speaker and an unused name it was judged to hold), and every entry
\* the pass committed has method score_based and the average confidence of the
\* speaker's judgments for that name
C22_SecondChance ==
    Finished =>
        \A speaker_order \in SpeakerOrders, name_order \in NameOrders :
            LET before == WrittenMapping(speaker_order, name_order)
                after == ScoredMapping(speaker_order, name_order)
            IN  /\ \A s \in AllSpeakers \ DOMAIN after.final :
                      \A n \in Range(after.unused) : JudgmentsOf(s, n) = <<>>
                /\ \A s \in DOMAIN after.final \ DOMAIN before.final :
                      LET e == after.final[s]
                          js == JudgmentsOf(s, e.name)
                      IN  /\ e.match_method = "score_based"
                          /\ js # <<>>
                          /\ e.confidence * Len(js) = SumConfidence(js)

\* the speakers residual elimination names, and those with at least 3 utterances
\* that it leaves unmapped
ResidualGiven(speaker_order, name_order) ==
    LET scored == ScoredMapping(speaker_order, name_order)
    IN  DOMAIN ResidualPass(speaker_order, scored, speaker_utterances).final
            \ DOMAIN scored.final

ResidualLeft(speaker_order, name_order) ==
    LET scored == ScoredMapping(speaker_order, name_order)
    IN  {s \in AllSpeakers \ DOMAIN ResidualPass(speaker_order, scored,
                                                 speaker_utterances).final :
            Len(speaker_utterances[s]) >= 3}

\* C23: residual elimination names only speakers that second-chance scoring left
\* unmapped and that have at least 3 utterances, gives them names that were still
\* unused, and a speaker with at least 3 utterances is left without a name only when
\* the unused names ran out, in which case every speaker that got a name has at least
\* as many utterances
C23_ResidualOrder ==
    Finished =>
        \A speaker_order \in SpeakerOrders, name_order \in NameOrders :
            LET scored == ScoredMapping(speaker_order, name_order)
                residual == ResidualPass(speaker_order, scored, speaker_utterances)
                given == ResidualGiven(speaker_order, name_order)
                left == ResidualLeft(speaker_order, name_order)
            IN  scored.ran =>
                    /\ \A e \in given :
                          /\ e \in AllSpeakers
                          /\ Len(speaker_utterances[e]) >= 3
                          /\ residual.final[e].match_method = "elimination"
                          /\ residual.final[e].name \in Range(scored.unused)
                    /\ left # {} => residual.unused = <<>>
                    /\ \A u \in left, e \in given :
                          Len(speaker_utterances[e]) >= Len(speaker_utterances[u])

\* a speaker of 4 utterances got the last unused name by elimination and one of 3
\* utterances was left without a name
C23_Witness ==
    /\ Finished
    /\ \E e, u \in MappedLabels :
          /\ final_mappings[e].match_method = "elimination"
          /\ final_mappings[u].match_method = "none"
          /\ Len(speaker_utterances[u]) >= 3
          /\ Len(speaker_utterances[e]) > Len(speaker_utterances[u])
    /\ \E speaker_order \in SpeakerOrders, name_order \in NameOrders :
          /\ ResidualGiven(speaker_order, name_order) # {}
          /\ ResidualLeft(speaker_order, name_order) # {}

\* C24: a speaker that no stage has mapped gets the entry {name "Unknown",
\* confidence 0.0, method none, needs_review true}, and an entry has the name
\* "Unknown" only if its method is none and its confidence is 0.0
C24_UnknownFallback ==
    Finished =>
        /\ \A speaker_order \in SpeakerOrders, name_order \in NameOrders :
              LET assigned == SecondChance(speaker_order,
                                           WrittenMapping(speaker_order, name_order),
                                           name_based_results, participant_names,
                                           speaker_utterances)
                  result == MergeResult(speaker_order, name_order)
              IN  \A s \in AllSpeakers \ DOMAIN assigned.final :
                      /\ result.final[s].name = "Unknown"
                      /\ result.final[s].confidence = 0
                      /\ result.final[s].match_method = "none"
                      /\ result.final[s].needs_review
        /\ \A l \in MappedLabels :
              final_mappings[l].name = "Unknown"
                  => /\ final_mappings[l].match_method = "none"
                     /\ final_mappings[l].confidence = 0

\* C29: after merge_results_node, needs_manual_review holds exactly the labels whose
\* final entry has needs_review true, each of them once
C29_ReviewList ==
    Finished =>
        /\ Range(needs_manual_review) = {l \in MappedLabels : final_mappings[l].needs_review}
        /\ \A i, j \in DOMAIN needs_manual_review :
              needs_manual_review[i] = needs_manual_review[j] => i = j

\* a run in which some labels need review and another does not
C29_Witness ==
    /\ Finished
    /\ Len(needs_manual_review) >= 2
    /\ \E l \in MappedLabels : ~final_mappings[l].needs_review

(***************************************************************************)
(* Properties of the reasoner's history                                    *)
(***************************************************************************)
\* C25: the history is an append-only log in event order: a step never removes or
\* changes an entry, every reasoning call appends exactly one judgment whatever its
\* outcome and confidence, and the k-th entry is the judgment of the k-th name
\* mention with turn number k (the history of a run starts empty)
C25_HistoryAppendOnly ==
    [][/\ Len(mapping_history') >= Len(mapping_history)
       /\ SubSeq(mapping_history', 1, Len(mapping_history)) = mapping_history
       /\ Len(mapping_history') - Len(mapping_history) = Len(llm_calls') - Len(llm_calls)
       /\ Len(mapping_history') - Len(mapping_history) <= 1
       /\ \A k \in DOMAIN mapping_history' :
             /\ mapping_history'[k].turn = k
             /\ mapping_history'[k].name_mentioned = name_mentions[k].name
             /\ mapping_history'[k].time = name_mentions[k].time]_vars

\* a history of three judgments: a fallback, one of low confidence and one of high
C25_Witness ==
    /\ Len(mapping_history) = 3
    /\ mapping_history[1].error
    /\ ~mapping_history[2].error /\ mapping_history[2].confidence < ReviewBelow
    /\ ~mapping_history[3].error /\ mapping_history[3].confidence >= ReviewBelow

\* the reasoner is about to build the prompt of call number turn_num
Prompting == pc = "tagging_loop" /\ turn_num <= Len(name_mentions)

\* the judgments among the 15 most recent ones
Window == {t \in DOMAIN mapping_history : t > Len(mapping_history) - 15}

\* the line of the summary that shows judgment number t
LineOf(summary, t) ==
    {i \in DOMAIN summary :
        /\ summary[i].turn = t
        /\ summary[i].speaker = mapping_history[t].speaker
        /\ summary[i].name = mapping_history[t].name
        /\ summary[i].name_mentioned = mapping_history[t].name_mentioned
        /\ summary[i].confidence * ConfScale = mapping_history[t].confidence * 100}

\* every line of the summary shows one of the 15 most recent of the judgments of the
\* events 1..k-1 of this run, and no judgment twice
SummaryFromWindow(summary) ==
    /\ Len(mapping_history) = turn_num - 1
    /\ Len(summary) <= 15
    /\ \A i \in DOMAIN summary :
          /\ summary[i].turn \in Window
          /\ i \in LineOf(summary, summary[i].turn)
    /\ \A i, j \in DOMAIN summary : summary[i].turn = summary[j].turn => i = j

C27_NothingPartiallyApplied ==
    [][/\ pc' = "failed" => speaker_mappings' = speaker_mappings
       /\ speaker_mappings' # speaker_mappings => (pc = "done" /\ pc' = "saved")]_vars

\* a run that ended between two mentions, with one judgment in its history, on a
\* meeting that has rows
C27_Witness ==
    /\ pc = "failed"
    /\ mapping_history # <<>>
    /\ Len(mapping_history) < Len(name_mentions)
    /\ final_mappings = EmptyDict
    /\ \E key \in DOMAIN speaker_mappings : key[1] = ThisMeeting

\* the columns of a row that are not suggestion fields
KeptColumns(row) ==
    [final_name |-> row.final_name, is_modified |-> row.is_modified,
     nickname |-> row.nickname, suggested_role |-> row.suggested_role,
     role_confidence |-> row.role_confidence]

\* C30: when run_tagging_agent writes the final mapping of a label that already has a
\* row, only suggested_name, name_confidence, name_mentions, needs_manual_review and
\* conflict_detected of the row can change: final_name, is_modified and nickname (and
\* the role columns) stay, no row disappears, and the rows of other meetings stay
\* as they are
C30_PersistFrame ==
    [][\A key \in DOMAIN speaker_mappings :
          /\ key \in DOMAIN speaker_mappings'
          /\ KeptColumns(speaker_mappings'[key]) = KeptColumns(speaker_mappings[key])
          /\ key[1] # ThisMeeting => speaker_mappings'[key] = speaker_mappings[key]]_vars

\* a run has been saved over a row the user had confirmed: the suggestion changed
\* and the confirmed name is still there
C30_Witness ==
    /\ pc = "saved"
    /\ <<ThisMeeting, "SPEAKER_00">> \in DOMAIN speaker_mappings
    /\ speaker_mappings[<<ThisMeeting, "SPEAKER_00">>].suggested_name
          # ConfirmedRow.suggested_name
    /\ speaker_mappings[<<ThisMeeting, "SPEAKER_00">>].final_name = "Park"
    /\ <<OtherMeeting, "SPEAKER_00">> \in DOMAIN speaker_mappings

(***************************************************************************)
(* Properties of the profile store                                         *)
(***************************************************************************)
\* how often the user has confirmed the name
ConfirmationsOf(uid, name) ==
    Cardinality({k \in DOMAIN confirmations :
                    confirmations[k].user_id = uid /\ confirmations[k].name = name})

ProfilesOf(uid, name) == ProfileMatches(db.rows, uid, name)

====
